---- MODULE Spec2Model ----
(***************************************************************************)
(* A model of the code-review command line tool (Lawndlwd/code-review).    *)
(*                                                                         *)
(* The tool is a sequential pipeline.  Its pure stages are operators that  *)
(* follow the Go code statement by statement; each stage has its own       *)
(* specification that draws the stage's inputs and applies it:             *)
(*   SpecBatch   createBatches                                             *)
(*   SpecEnum    git.LocalChanges (changedFiles, diffFile)                 *)
(*   SpecEnrich  diffFile -> ParseChangedLines -> EnrichDiffWithContext    *)
(*   Spec        review.Review (createBatches, reviewBatch, ReviewBatch)   *)
(*               followed by main's exit code                              *)
(*   SpecWindow  getSurroundingLines                                       *)
(*   SpecPrompt  reviewBatch's enrichment loop and BuildBatchPrompt        *)
(*   SpecReply   ParseBatchResponse behind ai.Client                       *)
(*   SpecFilter  filter.FilterEligible                                     *)
(*   SpecSeverity getSeverityEmoji, getSeverityColor                       *)
(*   SpecClient  Client.ReviewBatch against every answer of the endpoint   *)
(*   SpecPrint   output.PrintLocal                                         *)
(*   SpecMain    main: loadConfig, LoadBestPractices, NewClient, the run   *)
(***************************************************************************)
EXTENDS Integers, Sequences, FiniteSets, TLC

VARIABLES
    \* createBatches applied to an input list and a budget
    cb_pc, cb_diffs, cb_max, cb_out,
    \* ParseChangedLines applied to a diff text
    pd_pc, pd_diff, pd_out,
    \* git.LocalChanges
    lc_pc, lc_opts, lc_files, lc_i, lc_diffs, lc_failed,
    \* diffFile, LocalChanges' record and EnrichDiffWithContext for one path
    en_pc, en_path, en_cached, en_main, en_repoFile, en_file, en_out,
    \* review.Review
    rv_pc, rv_cfg, rv_repo, rv_diffs, rv_batches, rv_bi, rv_fi,
    rv_enriched, rv_contexts, rv_comments, rv_requests, rv_log, rv_exit,
    \* getSurroundingLines applied to a file content and a line number
    gs_pc, gs_lines, gs_lineNum, gs_reads, gs_out,
    \* reviewBatch's files and contexts for a batch, and BuildBatchPrompt
    bp_pc, bp_useTreeSitter, bp_batch, bp_repo, bp_files, bp_contexts, bp_out,
    \* a message text parsed as it is, and wrapped in a fenced block
    rp_pc, rp_raw, rp_out, rp_fenced,
    \* FilterEligible applied to a list and a cap
    fe_pc, fe_files, fe_limit, fe_out,
    \* the marker and the color of a severity
    sv_pc, sv_severity, sv_emoji, sv_color,
    \* Client.ReviewBatch applied to an endpoint and its answer
    cl_pc, cl_endpointOk, cl_exchange, cl_out,
    \* PrintLocal applied to a list of comments
    pl_pc, pl_comments, pl_out,
    \* main: arguments and environment, the rules path on disk, the
    \* configuration, the client, the steps taken and the exit code
    mn_pc, mn_args, mn_rules, mn_cfg, mn_client, mn_trace, mn_exit

batchVars  == <<cb_pc, cb_diffs, cb_max, cb_out>>
parseVars  == <<pd_pc, pd_diff, pd_out>>
enumVars   == <<lc_pc, lc_opts, lc_files, lc_i, lc_diffs, lc_failed>>
enrichVars == <<en_pc, en_path, en_cached, en_main, en_repoFile, en_file, en_out>>
reviewVars == <<rv_pc, rv_cfg, rv_repo, rv_diffs, rv_batches, rv_bi, rv_fi,
                rv_enriched, rv_contexts, rv_comments, rv_requests, rv_log,
                rv_exit>>
windowVars == <<gs_pc, gs_lines, gs_lineNum, gs_reads, gs_out>>
promptVars == <<bp_pc, bp_useTreeSitter, bp_batch, bp_repo, bp_files, bp_contexts,
                bp_out>>
replyVars  == <<rp_pc, rp_raw, rp_out, rp_fenced>>
filterVars == <<fe_pc, fe_files, fe_limit, fe_out>>
severityVars == <<sv_pc, sv_severity, sv_emoji, sv_color>>
pipelineVars == <<batchVars, parseVars, enumVars, enrichVars, reviewVars>>
clientVars == <<cl_pc, cl_endpointOk, cl_exchange, cl_out>>
printVars == <<pl_pc, pl_comments, pl_out>>
mainVars == <<mn_pc, mn_args, mn_rules, mn_cfg, mn_client, mn_trace, mn_exit>>
runVars == <<clientVars, printVars, mainVars>>
unitVars == <<windowVars, promptVars, replyVars, filterVars, severityVars, runVars>>
vars == <<pipelineVars, unitVars>>

-----------------------------------------------------------------------------
(* Bounds of the model *)

\* longest input list handed to createBatches alone
MaxFiles == 3

\* longest list of changed files handed to Review
MaxReviewFiles == 2

\* longest diff text handed to ParseChangedLines alone
MaxDiffLines == 4

\* budget of changed lines per batch that Review passes to createBatches
MaxChangesPerBatch == 100

\* lines of context on each side that AnalyzeCodeContext asks for
ContextLines == 5

-----------------------------------------------------------------------------
(* Generic helpers *)

SeqsUpTo(S, n) == UNION {[1..k -> S] : k \in 0..n}

Range(s) == {s[i] : i \in 1..Len(s)}

RECURSIVE Flatten(_)
Flatten(ss) == IF ss = <<>> THEN <<>> ELSE Head(ss) \o Flatten(Tail(ss))

RECURSIVE SumSeq(_)
SumSeq(s) == IF s = <<>> THEN 0 ELSE Head(s) + SumSeq(Tail(s))

NULL == [nil |-> TRUE]

-----------------------------------------------------------------------------
(* types.FileDiff, types.FileBatch *)

FileDiff(path, diffText, additions, deletions) ==
    [OldPath |-> path, NewPath |-> path, Diff |-> diffText,
     Additions |-> additions, Deletions |-> deletions, Language |-> ""]

\* the zero value types.FileBatch{}
FileBatch == [Files |-> <<>>, TotalChanges |-> 0]

Changes(diff) == diff.Additions + diff.Deletions

-----------------------------------------------------------------------------
(* createBatches *)

\* "if fileChanges > maxChangesPerBatch": the file gets its own batch
exceedsLimit_ge(fileChanges, maxChangesPerBatch) ==
    fileChanges >= maxChangesPerBatch
exceedsLimit(fileChanges, maxChangesPerBatch) ==
    fileChanges > maxChangesPerBatch

\* "if currentBatch.TotalChanges+fileChanges > max && len(currentBatch.Files) > 0"
startsNewBatch_eager(currentBatch, fileChanges, maxChangesPerBatch) ==
    Len(currentBatch.Files) > 0
startsNewBatch(currentBatch, fileChanges, maxChangesPerBatch) ==
    /\ currentBatch.TotalChanges + fileChanges > maxChangesPerBatch
    /\ Len(currentBatch.Files) > 0

\* "batches = append(batches, currentBatch)" guarded by len(currentBatch.Files) > 0
flushBatch_drop(batches, currentBatch) == batches
flushBatch(batches, currentBatch) ==
    IF Len(currentBatch.Files) > 0 THEN Append(batches, currentBatch) ELSE batches

\* "currentBatch = types.FileBatch{}" after a flush
resetBatch_keepTotal(currentBatch) == [currentBatch EXCEPT !.Files = <<>>]
resetBatch_keep(currentBatch) == currentBatch
resetBatch(currentBatch) ==
    IF Len(currentBatch.Files) > 0 THEN FileBatch ELSE currentBatch

\* the batch of one oversized file
ownBatch(diff, fileChanges) == [Files |-> <<diff>>, TotalChanges |-> fileChanges]

\* "currentBatch.Files = append(...); currentBatch.TotalChanges += fileChanges"
addToBatch(currentBatch, diff, fileChanges) ==
    [Files |-> Append(currentBatch.Files, diff),
     TotalChanges |-> currentBatch.TotalChanges + fileChanges]

RECURSIVE createBatchesLoop(_, _, _, _, _)
createBatchesLoop(diffs, i, batches, currentBatch, maxChangesPerBatch) ==
    IF i > Len(diffs)
    THEN \* "Don't forget the last batch"
         flushBatch(batches, currentBatch)
    ELSE LET diff == diffs[i]
             fileChanges == diff.Additions + diff.Deletions
         IN  IF exceedsLimit(fileChanges, maxChangesPerBatch)
             THEN createBatchesLoop(diffs, i + 1,
                      Append(flushBatch(batches, currentBatch),
                             ownBatch(diff, fileChanges)),
                      resetBatch(currentBatch), maxChangesPerBatch)
             ELSE IF startsNewBatch(currentBatch, fileChanges, maxChangesPerBatch)
             THEN createBatchesLoop(diffs, i + 1,
                      flushBatch(batches, currentBatch),
                      addToBatch(resetBatch(currentBatch), diff, fileChanges),
                      maxChangesPerBatch)
             ELSE createBatchesLoop(diffs, i + 1, batches,
                      addToBatch(currentBatch, diff, fileChanges),
                      maxChangesPerBatch)

createBatches(diffs, maxChangesPerBatch) ==
    createBatchesLoop(diffs, 1, <<>>, FileBatch, maxChangesPerBatch)

-----------------------------------------------------------------------------
(* Unified-diff text.  A text is the sequence of its lines; of a line the  *)
(* code only looks at its prefix and, in a hunk header, at the number the  *)
(* regexp `@@ -\d+,\d+ \+(\d+),\d+ @@` captures.  Kinds of line:           *)
(*   hunk    starts with "@@" and matches the regexp, start = the capture  *)
(*   hunk1   starts with "@@", no match (git writes "@@ -3 +3 @@" and      *)
(*           "@@ -0,0 +1 @@" when a count is 1)                            *)
(*   add     starts with "+", not with "+++"                               *)
(*   plus3   starts with "+++" ("+++ b/path", or an added line "++i;")     *)
(*   del     starts with "-", not with "---"                               *)
(*   minus3  starts with "---"                                             *)
(*   ctx     starts with " "                                               *)
(*   meta    any other non-blank line ("diff --git", "index", "\ No ...")  *)

Line(kind) == [kind |-> kind, start |-> 0]
Hunk(c) == [kind |-> "hunk", start |-> c]

HasPrefixAtAt(line)   == line.kind \in {"hunk", "hunk1"}
HasPrefixPlus(line)   == line.kind \in {"add", "plus3"}
HasPrefixPlus3(line)  == line.kind = "plus3"
HasPrefixMinus(line)  == line.kind \in {"del", "minus3"}
HasPrefixMinus3(line) == line.kind = "minus3"
HasPrefixSpace(line)  == line.kind = "ctx"

\* re.FindStringSubmatch(line): len(matches) > 1
hunkMatches(line) == line.kind = "hunk"

\* the counter after an added line
afterAdded_same(currentLine) == currentLine
afterAdded(currentLine) == currentLine + 1

\* the counter after a hunk header
afterHeader(line, currentLine) ==
    IF hunkMatches(line) THEN line.start ELSE currentLine

RECURSIVE parseChangedLinesLoop(_, _, _, _)
parseChangedLinesLoop(lines, i, currentLine, changedLines) ==
    IF i > Len(lines) THEN changedLines
    ELSE LET line == lines[i] IN
         IF HasPrefixAtAt(line)
         THEN parseChangedLinesLoop(lines, i + 1, afterHeader(line, currentLine),
                                    changedLines)
         ELSE IF HasPrefixPlus(line) /\ ~HasPrefixPlus3(line)
         THEN parseChangedLinesLoop(lines, i + 1, afterAdded(currentLine),
                                    Append(changedLines, currentLine))
         ELSE IF HasPrefixMinus(line) /\ ~HasPrefixMinus3(line)
         THEN parseChangedLinesLoop(lines, i + 1, currentLine, changedLines)
         ELSE IF HasPrefixSpace(line)
         THEN parseChangedLinesLoop(lines, i + 1, currentLine + 1, changedLines)
         ELSE parseChangedLinesLoop(lines, i + 1, currentLine, changedLines)

ParseChangedLines(diff) == parseChangedLinesLoop(diff, 1, 0, <<>>)

\* countPrefix(diff, '+') and countPrefix(diff, '-'): lines whose first byte is it
countPrefixPlus(diff) ==
    Cardinality({i \in 1..Len(diff) : HasPrefixPlus(diff[i])})
countPrefixMinus(diff) ==
    Cardinality({i \in 1..Len(diff) : HasPrefixMinus(diff[i])})

\* strings.TrimSpace(diffText) == ""
isBlank(diffText) == Len(diffText) = 0

-----------------------------------------------------------------------------
(* The source-control collaborator: the result of one git invocation *)

GitOk(out) == [err |-> FALSE, out |-> out]
GitErr == [err |-> TRUE, out |-> <<>>]

\* "targetBranch != "" && targetBranch != "HEAD"" in the non-local case
usesMergeBase(local, targetBranch) ==
    ~local /\ targetBranch # "" /\ targetBranch # "HEAD"

\* the staged diff written to the buffer first
stagedPart(includeUnstaged, cached) ==
    IF includeUnstaged /\ ~cached.err THEN cached.out ELSE <<>>

\* diffFile: cached, mergeBase and main are the results of its invocations
diffFile(includeUnstaged, local, targetBranch, cached, mergeBase, main) ==
    LET buf == stagedPart(includeUnstaged, cached) IN
    IF usesMergeBase(local, targetBranch) /\ mergeBase.err
    THEN [text |-> <<>>, err |-> TRUE]
    ELSE IF main.err
    THEN [text |-> <<>>, err |-> TRUE]
    ELSE [text |-> buf \o main.out, err |-> FALSE]

-----------------------------------------------------------------------------
(* Context enrichment *)

\* a file's content: the lines strings.Split(content, "\n") yields, line i
\* carrying the text 100 + i
ContentOf(n) == [i \in 1..n |-> 100 + i]

NoFile == <<>>

Max(a, b) == IF a > b THEN a ELSE b
Min(a, b) == IF a < b THEN a ELSE b

\* "start := max(0, lineNum-contextLines-1)"
windowStart_unclamped(lineNum, contextLines) == lineNum - contextLines - 1
windowStart(lineNum, contextLines) == Max(0, lineNum - contextLines - 1)

\* "end := min(len(lines), lineNum+contextLines)"
windowEnd_short(n, lineNum, contextLines) == Min(n, lineNum + contextLines - 1)
windowEnd(n, lineNum, contextLines) == Min(n, lineNum + contextLines)

\* the early return of getSurroundingLines
windowIsEmpty(n, start, end) == start >= n \/ end <= 0

\* the values i takes in "for i := start; i < end; i++", each of which is
\* used as the index of lines[i] (indices count from 0, as in the code)
indicesRead(n, lineNum, contextLines) ==
    LET start == windowStart(lineNum, contextLines)
        end == windowEnd(n, lineNum, contextLines)
    IN  IF windowIsEmpty(n, start, end) THEN <<>>
        ELSE [k \in 1..(end - start) |-> start + k - 1]

\* getSurroundingLines: the rendered window, "" being the empty sequence
getSurroundingLines(lines, lineNum, contextLines) ==
    LET read == indicesRead(Len(lines), lineNum, contextLines)
    IN  [k \in 1..Len(read) |->
            LET i == read[k] IN
            [prefix |-> IF i = lineNum - 1 THEN ">>> " ELSE "    ",
             num |-> i + 1,
             text |-> lines[i + 1]]]

\* "context.Surrounding[lineNum] = getSurroundingLines(fileContent, lineNum, 5)"
storeWindow_nonEmpty(surrounding, lineNum, window) ==
    IF window = <<>> THEN surrounding ELSE (lineNum :> window) @@ surrounding
storeWindow(surrounding, lineNum, window) ==
    (lineNum :> window) @@ surrounding

RECURSIVE surroundingLoop(_, _, _, _)
surroundingLoop(fileContent, changedLines, i, surrounding) ==
    IF i > Len(changedLines) THEN surrounding
    ELSE surroundingLoop(fileContent, changedLines, i + 1,
             storeWindow(surrounding, changedLines[i],
                         getSurroundingLines(fileContent, changedLines[i],
                                             ContextLines)))

\* Parser.AnalyzeCodeContext: both branches on getParserForFile run the same loop
AnalyzeCodeContext(fileContent, changedLines, filename) ==
    [ChangedLines |-> changedLines,
     Surrounding |-> surroundingLoop(fileContent, changedLines, 1, <<>>)]

\* the extension a path ends in
Ext(path) ==
    CASE path \in {"a.ts", "e.ts", "node_modules/x.ts", "src/distance.ts"} -> ".ts"
      [] path \in {"b.tsx", "f.tsx", ".gitlab/z.tsx"} -> ".tsx"
      [] path \in {"c.js", "dist/y.js"} -> ".js"
      [] path = "d.jsx" -> ".jsx"
      [] path = "README.md" -> ".md"
      [] path = "package.json" -> ".json"
      [] path = "main.go" -> ".go"
      [] OTHER -> ""

HasSuffix(path, suffix) == Ext(path) = suffix

\* the switch of EnrichDiffWithContext on the extension of diff.NewPath
languageOf_unknown(diff) ==
    IF HasSuffix(diff.NewPath, ".tsx") THEN "tsx"
    ELSE IF HasSuffix(diff.NewPath, ".ts") THEN "typescript"
    ELSE IF HasSuffix(diff.NewPath, ".jsx") THEN "jsx"
    ELSE IF HasSuffix(diff.NewPath, ".js") THEN "javascript"
    ELSE "unknown"
languageOf(diff) ==
    IF HasSuffix(diff.NewPath, ".tsx") THEN "tsx"
    ELSE IF HasSuffix(diff.NewPath, ".ts") THEN "typescript"
    ELSE IF HasSuffix(diff.NewPath, ".jsx") THEN "jsx"
    ELSE IF HasSuffix(diff.NewPath, ".js") THEN "javascript"
    ELSE diff.Language

\* getFileContent: `git show HEAD:path`, else the working-tree file.
\* repoFile = [head, worktree], each a content or NoFile
getFileContent(repoFile) ==
    IF repoFile.head # NoFile THEN [err |-> FALSE, content |-> repoFile.head]
    ELSE IF repoFile.worktree # NoFile
    THEN [err |-> FALSE, content |-> repoFile.worktree]
    ELSE [err |-> TRUE, content |-> <<>>]

\* EnrichDiffWithContext(repoPath, diff, targetBranch, p); pIsNil is p == nil
EnrichDiffWithContext(repoFile, diff, pIsNil) ==
    LET changedLines == ParseChangedLines(diff.Diff)
        got == getFileContent(repoFile)
        tagged == [diff EXCEPT !.Language = languageOf(diff)]
    IN  IF got.err
        THEN [diff |-> diff, ctx |-> NULL, err |-> TRUE]
        ELSE IF pIsNil
        THEN [diff |-> tagged,
              ctx |-> [ChangedLines |-> changedLines, Surrounding |-> <<>>],
              err |-> FALSE]
        ELSE [diff |-> tagged,
              ctx |-> AnalyzeCodeContext(got.content, changedLines, diff.NewPath),
              err |-> FALSE]

-----------------------------------------------------------------------------
(* SpecBatch: createBatches applied to every bounded input list and budget *)

\* paths of the files of an input list, by position
PathAt == <<"a.ts", "b.tsx", "c.js", "d.jsx", "e.ts", "f.tsx">>

\* <<additions, deletions>> a file of the input list may carry
CountChoices ==
    {<<0, 0>>, <<5, 0>>, <<30, 30>>, <<60, 40>>, <<100, 1>>, <<200, 0>>}

\* budgets createBatches is applied with (Review always passes the last one)
Budgets == {0, 60, MaxChangesPerBatch}

DiffList(counts) ==
    [i \in 1..Len(counts) |-> FileDiff(PathAt[i], <<>>, counts[i][1], counts[i][2])]

BatchInputs == {DiffList(c) : c \in SeqsUpTo(CountChoices, MaxFiles)}

IdleBatch ==
    /\ cb_pc = "idle" /\ cb_diffs = <<>> /\ cb_max = 0 /\ cb_out = <<>>

InitBatch ==
    /\ cb_pc = "call"
    /\ cb_diffs \in BatchInputs
    /\ cb_max \in Budgets
    /\ cb_out = <<>>

CallCreateBatches ==
    /\ cb_pc = "call"
    /\ cb_out' = createBatches(cb_diffs, cb_max)
    /\ cb_pc' = "done"
    /\ UNCHANGED <<cb_diffs, cb_max>>

-----------------------------------------------------------------------------
(* SpecParse: ParseChangedLines applied to every bounded diff text *)

DiffLines ==
    {Hunk(3), Hunk(10), Line("hunk1"), Line("add"), Line("plus3"), Line("del"),
     Line("minus3"), Line("ctx"), Line("meta")}

IdleParse == pd_pc = "idle" /\ pd_diff = <<>> /\ pd_out = <<>>

InitParse ==
    /\ pd_pc = "call"
    /\ pd_diff \in SeqsUpTo(DiffLines, MaxDiffLines)
    /\ pd_out = <<>>

CallParseChangedLines ==
    /\ pd_pc = "call"
    /\ pd_out' = ParseChangedLines(pd_diff)
    /\ pd_pc' = "done"
    /\ UNCHANGED pd_diff

-----------------------------------------------------------------------------
(* SpecEnrich: one changed path from diffFile to EnrichDiffWithContext *)

FileHeader == <<Line("meta"), Line("minus3"), Line("plus3")>>

\* outputs of `git diff <ref> -- path` for one path: hunks in ascending order
GitDiffs ==
    { <<>>,
      FileHeader \o <<Hunk(3), Line("ctx"), Line("add"), Line("ctx")>>,
      FileHeader \o <<Hunk(1), Line("add"), Line("add"),
                      Hunk(10), Line("del"), Line("add")>>,
      FileHeader \o <<Hunk(2), Line("ctx"), Line("del")>>,
      FileHeader \o <<Line("hunk1"), Line("add")>> }

GitDiffResults == {GitErr} \cup {GitOk(d) : d \in GitDiffs}

RepoFiles ==
    { [head |-> ContentOf(2), worktree |-> ContentOf(2)],
      [head |-> ContentOf(12), worktree |-> ContentOf(13)],
      [head |-> NoFile, worktree |-> ContentOf(4)],
      [head |-> NoFile, worktree |-> NoFile] }

EnrichPaths == {"a.ts", "b.tsx", "c.js", "d.jsx", "main.go"}

\* the record LocalChanges appends for a path and its diff text
localChangesRecord(file, diffText) ==
    FileDiff(file, diffText, countPrefixPlus(diffText), countPrefixMinus(diffText))

IdleEnrich ==
    /\ en_pc = "idle" /\ en_path = "" /\ en_cached = GitErr /\ en_main = GitErr
    /\ en_repoFile = [head |-> NoFile, worktree |-> NoFile]
    /\ en_file = NULL /\ en_out = NULL

InitEnrich ==
    /\ en_pc = "diff"
    /\ en_path \in EnrichPaths
    /\ en_cached \in GitDiffResults
    /\ en_main \in GitDiffResults
    /\ en_repoFile \in RepoFiles
    /\ en_file = NULL
    /\ en_out = NULL

\* LocalChanges' loop body for the path, with main's options
\* (IncludeUnstaged true, target branch HEAD, not local)
EnDiffFile ==
    /\ en_pc = "diff"
    /\ LET r == diffFile(TRUE, FALSE, "HEAD", en_cached, GitOk(<<>>), en_main) IN
       IF r.err \/ isBlank(r.text)
       THEN en_pc' = "skipped" /\ en_file' = en_file
       ELSE en_pc' = "enrich" /\ en_file' = localChangesRecord(en_path, r.text)
    /\ UNCHANGED <<en_path, en_cached, en_main, en_repoFile, en_out>>

\* reviewBatch's call of EnrichDiffWithContext (p is never nil there)
EnEnrich ==
    /\ en_pc = "enrich"
    /\ en_out' = EnrichDiffWithContext(en_repoFile, en_file, FALSE)
    /\ en_pc' = "enriched"
    /\ UNCHANGED <<en_path, en_cached, en_main, en_repoFile, en_file>>

-----------------------------------------------------------------------------
(* SpecEnum: git.LocalChanges *)

\* the second loop of changedFiles: first occurrences, in order
RECURSIVE uniqueLoop(_, _, _)
uniqueLoop(entries, i, unique) ==
    IF i > Len(entries) THEN unique
    ELSE IF entries[i] = "" \/ entries[i] \in Range(unique)
    THEN uniqueLoop(entries, i + 1, unique)
    ELSE uniqueLoop(entries, i + 1, Append(unique, entries[i]))

\* changedFiles: mergeBase, list and cached are the results of its invocations
changedFiles(includeUnstaged, local, targetBranch, mergeBase, list, cached) ==
    IF usesMergeBase(local, targetBranch) /\ mergeBase.err
    THEN [files |-> <<>>, err |-> TRUE]
    ELSE IF list.err
    THEN [files |-> <<>>, err |-> TRUE]
    ELSE LET entries == IF includeUnstaged /\ ~cached.err
                        THEN list.out \o cached.out ELSE list.out
         IN  [files |-> uniqueLoop(entries, 1, <<>>), err |-> FALSE]

\* "if err != nil || strings.TrimSpace(diffText) == "" { continue }"
skipsFile(r) == r.err \/ isBlank(r.text)

EnumOptions ==
    [Local : BOOLEAN, TargetBranch : {"", "HEAD", "origin/main"},
     IncludeUnstaged : BOOLEAN]

NameListResults ==
    {GitErr, GitOk(<<>>), GitOk(<<"a.ts">>), GitOk(<<"a.ts", "b.tsx">>),
     GitOk(<<"c.js", "a.ts">>)}

MergeBaseResults == {GitErr, GitOk(<<>>)}

EnumDiffResults ==
    {GitErr, GitOk(<<>>),
     GitOk(FileHeader \o <<Hunk(3), Line("ctx"), Line("add"), Line("del")>>)}

IdleEnum ==
    /\ lc_pc = "idle"
    /\ lc_opts = [Local |-> FALSE, TargetBranch |-> "", IncludeUnstaged |-> FALSE]
    /\ lc_files = <<>> /\ lc_i = 0 /\ lc_diffs = <<>> /\ lc_failed = {}

InitEnum ==
    /\ lc_pc = "changedFiles"
    /\ lc_opts \in EnumOptions
    /\ lc_files = <<>>
    /\ lc_i = 0
    /\ lc_diffs = <<>>
    /\ lc_failed = {}

\* LocalChanges up to the loop: changedFiles and its error return.
\* lc_failed records the failed invocations the run depends on: the listing,
\* the merge base, and (below) the main diff of a path; a failure of a
\* `--cached` invocation, which the code tolerates on purpose, is not recorded.
LcChangedFiles ==
    /\ lc_pc = "changedFiles"
    /\ \E mergeBase \in MergeBaseResults, list \in NameListResults,
          cached \in NameListResults :
         LET r == changedFiles(lc_opts.IncludeUnstaged, lc_opts.Local,
                               lc_opts.TargetBranch, mergeBase, list, cached)
             mb == usesMergeBase(lc_opts.Local, lc_opts.TargetBranch)
         IN  /\ lc_failed' = IF mb /\ mergeBase.err THEN {"merge-base"}
                             ELSE IF list.err THEN {"name-list"} ELSE {}
             /\ IF r.err
                THEN lc_pc' = "error" /\ lc_files' = lc_files /\ lc_i' = lc_i
                ELSE lc_pc' = "loop" /\ lc_files' = r.files /\ lc_i' = 1
    /\ UNCHANGED <<lc_opts, lc_diffs>>

\* one iteration of "for _, file := range files"
LcDiffFile ==
    /\ lc_pc = "loop"
    /\ lc_i <= Len(lc_files)
    /\ \E cached \in EnumDiffResults, mergeBase \in MergeBaseResults,
          main \in EnumDiffResults :
         LET file == lc_files[lc_i]
             mb == usesMergeBase(lc_opts.Local, lc_opts.TargetBranch)
             r == diffFile(lc_opts.IncludeUnstaged, lc_opts.Local,
                           lc_opts.TargetBranch, cached, mergeBase, main)
         IN  /\ lc_failed' =
                  IF (mb /\ mergeBase.err) \/ (~(mb /\ mergeBase.err) /\ main.err)
                  THEN lc_failed \cup {file} ELSE lc_failed
             /\ lc_diffs' = IF skipsFile(r) THEN lc_diffs
                            ELSE Append(lc_diffs, localChangesRecord(file, r.text))
    /\ lc_i' = lc_i + 1
    /\ UNCHANGED <<lc_pc, lc_opts, lc_files>>

\* "return diffs, nil"
LcReturn ==
    /\ lc_pc = "loop"
    /\ lc_i > Len(lc_files)
    /\ lc_pc' = "returned"
    /\ UNCHANGED <<lc_opts, lc_files, lc_i, lc_diffs, lc_failed>>

-----------------------------------------------------------------------------
(* The remote model endpoint and ai.Client *)

\* types.ReviewComment
ReviewComment(path, line, severity) ==
    [FilePath |-> path, Line |-> line, Comment |-> "c", Severity |-> severity]

\* A text (a message content, a JSON payload, a JSON string) is a sequence of
\* pieces: a run of three backticks, the word json, white space, other
\* characters, and the two ends of a JSON object of the AIReviewResponse
\* shape.  ObjectStart(comments) stands for
\* the opening brace, the comments member and the summary member up to the
\* opening quote of its string, ObjectEnd for the closing quote and brace; the pieces between them are
\* the characters of the summary string.
Tok(kind) == [kind |-> kind, comments |-> <<>>]
Fence == Tok("fence")
JsonWord == Tok("json")
Space == Tok(" ")
Word == Tok("text")
ObjectStart(comments) == [kind |-> "{", comments |-> comments]
ObjectEnd == Tok("}")

\* the pieces that may stand inside a JSON string
StringKinds == {"fence", "json", " ", "text"}

EmptyText == <<>>
BadText == <<Word>>
JSONText(comments) == <<ObjectStart(comments), Word, ObjectEnd>>

\* a text wrapped in a fenced block: the fence, the word json, a line break,
\* the text, a line break, the fence
Fenced(text) == <<Fence, JsonWord, Space>> \o text \o <<Space, Fence>>

\* the white space that "\s*" and the JSON decoder skip
RECURSIVE TrimLeft(_)
TrimLeft(text) ==
    IF text # <<>> /\ Head(text) = Space THEN TrimLeft(Tail(text)) ELSE text

RECURSIVE TrimRight(_)
TrimRight(text) ==
    IF text # <<>> /\ text[Len(text)] = Space
    THEN TrimRight(SubSeq(text, 1, Len(text) - 1))
    ELSE text

\* fencedJSON.FindStringSubmatch(raw): a run of three backticks, the optional
\* word json, white space, the group, white space, a run of three backticks;
\* the leftmost match opens at the first run of backticks that has another one
\* behind it; the optional word and the white space are taken greedily, the
\* group lazily, so the match closes at the next run of backticks
fencedJSON(raw) ==
    LET fences == {i \in 1..Len(raw) : raw[i] = Fence} IN
    IF Cardinality(fences) < 2 THEN [matched |-> FALSE, group |-> <<>>]
    ELSE LET open == CHOOSE i \in fences : \A j \in fences : i <= j
             close == CHOOSE i \in fences \ {open} :
                          \A j \in fences \ {open} : i <= j
             inner == SubSeq(raw, open + 1, close - 1)
             afterWord == IF inner # <<>> /\ Head(inner) = JsonWord
                          THEN Tail(inner) ELSE inner
         IN  [matched |-> TRUE, group |-> TrimRight(TrimLeft(afterWord))]

\* the zero value types.AIReviewResponse{}
NoResponse == [Comments |-> <<>>, Summary |-> <<>>]

\* json.Unmarshal([]byte(jsonPayload), &parsed)
Unmarshal(jsonPayload) ==
    LET body == TrimRight(TrimLeft(jsonPayload))
        n == Len(body)
    IN  IF /\ n >= 2
           /\ body[1].kind = "{"
           /\ body[n] = ObjectEnd
           /\ \A k \in 2..(n - 1) : body[k].kind \in StringKinds
        THEN [err |-> FALSE,
              parsed |-> [Comments |-> body[1].comments,
                          Summary |-> SubSeq(body, 2, n - 1)]]
        ELSE [err |-> TRUE, parsed |-> NoResponse]

\* the summary "Failed to parse AI response"
FailureSummary == <<Tok("Failed to parse AI response")>>

\* parseBatchResponse (ParseBatchResponse has the same body)
parseBatchResponse_zero(raw) ==
    LET m == fencedJSON(raw)
        u == Unmarshal(IF m.matched THEN m.group ELSE raw)
    IN  IF u.err THEN NoResponse ELSE u.parsed
parseBatchResponse(raw) ==
    LET m == fencedJSON(raw)
        jsonPayload == IF m.matched THEN m.group ELSE raw
        u == Unmarshal(jsonPayload)
    IN  IF u.err
        THEN [Comments |-> <<>>, Summary |-> FailureSummary]
        ELSE u.parsed

\* completionsResponse.FirstContent
FirstContent_last(choices) ==
    IF Len(choices) = 0 THEN EmptyText ELSE choices[Len(choices)]
FirstContent(choices) == IF Len(choices) = 0 THEN EmptyText ELSE choices[1]

\* what the endpoint does with one request: the transport fails (network
\* error or the 60 s timeout), or it answers with a status and a body that
\* is a JSON envelope of choices or is not
Exchange(transportErr, status, isEnvelope, choices) ==
    [transportErr |-> transportErr, status |-> status,
     isEnvelope |-> isEnvelope, choices |-> choices]

\* how many times Client.ReviewBatch calls httpClient.Do: once, unless
\* http.NewRequestWithContext rejected the endpoint URL before
requestsSent_retry(endpointOk, exchange) ==
    IF ~endpointOk THEN 0 ELSE IF exchange.transportErr THEN 2 ELSE 1
requestsSent(endpointOk, exchange) == IF ~endpointOk THEN 0 ELSE 1

\* Client.ReviewBatch after the prompt is built
ClientReviewBatch(endpointOk, exchange) ==
    IF ~endpointOk
    THEN [resp |-> NoResponse, err |-> TRUE]      \* NewRequestWithContext
    ELSE IF exchange.transportErr
    THEN [resp |-> NoResponse, err |-> TRUE]      \* "send request"
    ELSE IF exchange.status >= 300
    THEN [resp |-> NoResponse, err |-> TRUE]      \* "ai request failed"
    ELSE IF ~exchange.isEnvelope
    THEN [resp |-> NoResponse, err |-> TRUE]      \* "decode response"
    ELSE LET content == FirstContent(exchange.choices) IN
         IF content = EmptyText
         THEN [resp |-> NoResponse, err |-> TRUE] \* "empty AI response"
         ELSE [resp |-> parseBatchResponse(content), err |-> FALSE]

-----------------------------------------------------------------------------
(* Package output: severities, markers, colors and main's exit code *)

\* A severity text is the sequence of its words; the spaces and the
\* punctuation between them are left out, as no rule looks for them.
\* strings.ToLower, word by word
lowerWord(word) ==
    CASE word = "Blocking" -> "blocking"
      [] word = "Question" -> "question"
      [] word = "Issue" -> "issue"
      [] word = "Suggestion" -> "suggestion"
      [] word = "Critical" -> "critical"
      [] OTHER -> word

ToLower(severity) == [k \in 1..Len(severity) |-> lowerWord(severity[k])]

\* strings.Contains(severity, word)
Contains(severity, word) == \E k \in 1..Len(severity) : severity[k] = word

\* getSeverityEmoji: the markers are named after what they depict
getSeverityEmoji(severity) ==
    LET lowered == ToLower(severity) IN
    IF Contains(lowered, "blocking") THEN "police light"
    ELSE IF Contains(lowered, "question") THEN "question mark"
    ELSE IF Contains(lowered, "issue") THEN "warning sign"
    ELSE IF Contains(lowered, "suggestion") THEN "light bulb"
    ELSE "information"

\* getSeverityColor
getSeverityColor_caseSensitive(severity) ==
    IF Contains(severity, "blocking") THEN "bold red"
    ELSE IF Contains(severity, "question") THEN "bold yellow"
    ELSE IF Contains(severity, "issue") THEN "bold yellow"
    ELSE IF Contains(severity, "suggestion") THEN "bold cyan"
    ELSE "default"
getSeverityColor(severity) ==
    LET lowered == ToLower(severity) IN
    IF Contains(lowered, "blocking") THEN "bold red"
    ELSE IF Contains(lowered, "question") THEN "bold yellow"
    ELSE IF Contains(lowered, "issue") THEN "bold yellow"
    ELSE IF Contains(lowered, "suggestion") THEN "bold cyan"
    ELSE "default"

\* CountSeverity: "c.Severity == severity"
CountSeverity(comments, severity) ==
    Cardinality({i \in 1..Len(comments) : comments[i].Severity = severity})

\* the severity main counts
Critical == <<"critical">>

\* main: "if output.CountSeverity(comments, "critical") > 0 { os.Exit(1) }"
exitCode_anyComment(comments) == IF Len(comments) > 0 THEN 1 ELSE 0
exitCode(comments) == IF CountSeverity(comments, Critical) > 0 THEN 1 ELSE 0

\* the exit codes of the process so far: none while it runs
Running == <<>>

-----------------------------------------------------------------------------
(* Spec: review.Review *)

\* reviewBatch's loop body for one file: the enriched record and context
enrichStep(useTreeSitter, pIsNil, repoFile, diff) ==
    IF useTreeSitter /\ ~pIsNil
    THEN LET e == EnrichDiffWithContext(repoFile, diff, pIsNil) IN
         IF e.err
         THEN [diff |-> diff, ctx |-> NULL, failed |-> TRUE]
         ELSE [diff |-> e.diff, ctx |-> e.ctx, failed |-> FALSE]
    ELSE [diff |-> diff, ctx |-> NULL, failed |-> FALSE]

\* "enrichedDiffs = append(enrichedDiffs, enrichedDiff)"
appendEnriched_skipFailed(enrichedDiffs, r) ==
    IF r.failed THEN enrichedDiffs ELSE Append(enrichedDiffs, r.diff)
appendEnriched(enrichedDiffs, r) == Append(enrichedDiffs, r.diff)

\* "contexts = append(contexts, context)"
appendContext_skipNil(contexts, r) ==
    IF r.ctx = NULL THEN contexts ELSE Append(contexts, r.ctx)
appendContext(contexts, r) == Append(contexts, r.ctx)

\* reviewBatch's result: nil on a dispatch error, else resp.Comments
batchComments(result) == IF result.err THEN <<>> ELSE result.resp.Comments

\* "comments = append(comments, batchComments...)"
appendComments_overwrite(comments, found) == found
appendComments(comments, found) == comments \o found

ReviewFileChoices ==
    { [diff |-> FileHeader \o <<Hunk(3), Line("ctx"), Line("add")>>,
       add |-> 5, del |-> 0],
      [diff |-> FileHeader \o <<Hunk(1), Line("add"), Hunk(10), Line("del")>>,
       add |-> 60, del |-> 40],
      [diff |-> FileHeader \o <<Hunk(9), Line("add"), Line("add")>>,
       add |-> 200, del |-> 0] }

ReviewList(choices) ==
    [i \in 1..Len(choices) |->
        FileDiff(PathAt[i], choices[i].diff, choices[i].add, choices[i].del)]

ReviewInputs ==
    {ReviewList(c) : c \in SeqsUpTo(ReviewFileChoices, MaxReviewFiles)}

ReviewRepoFiles ==
    { [head |-> ContentOf(3), worktree |-> ContentOf(3)],
      [head |-> NoFile, worktree |-> NoFile] }

\* what the endpoint may do with the request made for these files
Exchanges(files) ==
    LET one == JSONText(<<ReviewComment(files[1].NewPath, 3, <<"Issue">>)>>)
        all == Fenced(JSONText([i \in 1..Len(files) |->
                  ReviewComment(files[i].NewPath, i, <<"Suggestion", "blocking">>)]))
        crit == JSONText(<<ReviewComment(files[1].NewPath, 1, Critical)>>)
    IN  { Exchange(TRUE, 0, FALSE, <<>>),
          Exchange(FALSE, 500, TRUE, <<crit>>),
          Exchange(FALSE, 200, TRUE, <<crit>>),
          Exchange(FALSE, 200, FALSE, <<>>),
          Exchange(FALSE, 200, TRUE, <<>>),
          Exchange(FALSE, 200, TRUE, <<EmptyText, one>>),
          Exchange(FALSE, 200, TRUE, <<BadText>>),
          Exchange(FALSE, 200, TRUE, <<JSONText(<<>>)>>),
          Exchange(FALSE, 200, TRUE, <<all, one>>) }

IdleReview ==
    /\ rv_pc = "idle"
    /\ rv_cfg = [UseTreeSitter |-> FALSE, endpointOk |-> FALSE]
    /\ rv_repo = <<>> /\ rv_diffs = <<>> /\ rv_batches = <<>>
    /\ rv_bi = 0 /\ rv_fi = 0 /\ rv_enriched = <<>> /\ rv_contexts = <<>>
    /\ rv_comments = <<>> /\ rv_requests = <<>> /\ rv_log = <<>>
    /\ rv_exit = Running

InitReview ==
    /\ rv_pc = "start"
    /\ rv_cfg \in [UseTreeSitter : BOOLEAN, endpointOk : BOOLEAN]
    /\ rv_diffs \in ReviewInputs
    /\ rv_repo \in [{rv_diffs[i].NewPath : i \in 1..Len(rv_diffs)} -> ReviewRepoFiles]
    /\ rv_batches = <<>>
    /\ rv_bi = 0 /\ rv_fi = 0
    /\ rv_enriched = <<>> /\ rv_contexts = <<>>
    /\ rv_comments = <<>> /\ rv_requests = <<>> /\ rv_log = <<>>
    /\ rv_exit = Running

\* Review: "batches := createBatches(diffs, 100)"
RvCreateBatches ==
    /\ rv_pc = "start"
    /\ rv_batches' = createBatches(rv_diffs, MaxChangesPerBatch)
    /\ rv_pc' = "batch"
    /\ rv_bi' = 1 /\ rv_fi' = 1
    /\ UNCHANGED <<rv_cfg, rv_repo, rv_diffs, rv_enriched, rv_contexts,
                   rv_comments, rv_requests, rv_log, rv_exit>>

\* reviewBatch: one iteration of "for _, diff := range batch.Files"
RvEnrichFile ==
    /\ rv_pc = "batch"
    /\ rv_bi <= Len(rv_batches)
    /\ rv_fi <= Len(rv_batches[rv_bi].Files)
    /\ LET diff == rv_batches[rv_bi].Files[rv_fi]
           r == enrichStep(rv_cfg.UseTreeSitter, FALSE, rv_repo[diff.NewPath], diff)
       IN  /\ rv_enriched' = appendEnriched(rv_enriched, r)
           /\ rv_contexts' = appendContext(rv_contexts, r)
    /\ rv_fi' = rv_fi + 1
    /\ UNCHANGED <<rv_pc, rv_cfg, rv_repo, rv_diffs, rv_batches, rv_bi,
                   rv_comments, rv_requests, rv_log, rv_exit>>

\* reviewBatch: client.ReviewBatch for the batch, and Review's append of what
\* reviewBatch returns.  rv_log records each call of client.ReviewBatch (its
\* arguments and what the endpoint did); rv_requests the batch of every request
\* handed to httpClient.Do.
RvDispatch ==
    /\ rv_pc = "batch"
    /\ rv_bi <= Len(rv_batches)
    /\ rv_fi > Len(rv_batches[rv_bi].Files)
    /\ \E exchange \in Exchanges(rv_batches[rv_bi].Files) :
         LET result == ClientReviewBatch(rv_cfg.endpointOk, exchange) IN
         /\ rv_comments' = appendComments(rv_comments, batchComments(result))
         /\ rv_requests' = rv_requests \o
                [k \in 1..requestsSent(rv_cfg.endpointOk, exchange) |-> rv_bi]
         /\ rv_log' = Append(rv_log, [batch |-> rv_bi, files |-> rv_enriched,
                                      contexts |-> rv_contexts,
                                      exchange |-> exchange])
    /\ rv_bi' = rv_bi + 1
    /\ rv_fi' = 1
    /\ rv_enriched' = <<>>
    /\ rv_contexts' = <<>>
    /\ UNCHANGED <<rv_pc, rv_cfg, rv_repo, rv_diffs, rv_batches, rv_exit>>

\* Review: "return comments"
RvReturn ==
    /\ rv_pc = "batch"
    /\ rv_bi > Len(rv_batches)
    /\ rv_pc' = "done"
    /\ UNCHANGED <<rv_cfg, rv_repo, rv_diffs, rv_batches, rv_bi, rv_fi,
                   rv_enriched, rv_contexts, rv_comments, rv_requests, rv_log,
                   rv_exit>>

\* main after Review: PrintLocal, then the exit code
MainExit ==
    /\ rv_pc = "done"
    /\ rv_exit' = <<exitCode(rv_comments)>>
    /\ rv_pc' = "exited"
    /\ UNCHANGED <<rv_cfg, rv_repo, rv_diffs, rv_batches, rv_bi, rv_fi,
                   rv_enriched, rv_contexts, rv_comments, rv_requests, rv_log>>

-----------------------------------------------------------------------------
(* SpecWindow: getSurroundingLines alone *)

\* most lines of a file content handed to getSurroundingLines alone
MaxContentLines == 8

\* strings.Split never yields an empty list: a content has at least one line
WindowContents == {ContentOf(n) : n \in 1..MaxContentLines}

\* line numbers from 0 up to well beyond the end of the longest content
WindowLineNums == 0..(MaxContentLines + ContextLines + 2)

\* the outcome of a call: the window, or the run-time panic of an index out
\* of range
Window(w) == [panic |-> FALSE, window |-> w]
IndexPanic == [panic |-> TRUE, window |-> <<>>]

IdleWindow ==
    /\ gs_pc = "idle" /\ gs_lines = <<>> /\ gs_lineNum = 0
    /\ gs_reads = <<>> /\ gs_out = Window(<<>>)

InitWindow ==
    /\ gs_pc = "call"
    /\ gs_lines \in WindowContents
    /\ gs_lineNum \in WindowLineNums
    /\ gs_reads = <<>> /\ gs_out = Window(<<>>)

\* "getSurroundingLines(fileContent, lineNum, 5)"; gs_reads records the
\* indices the loop uses on lines
CallGetSurroundingLines ==
    /\ gs_pc = "call"
    /\ LET read == indicesRead(Len(gs_lines), gs_lineNum, ContextLines) IN
       /\ gs_reads' = read
       /\ gs_out' = IF \A k \in 1..Len(read) : read[k] \in 0..(Len(gs_lines) - 1)
                    THEN Window(getSurroundingLines(gs_lines, gs_lineNum, ContextLines))
                    ELSE IndexPanic
    /\ gs_pc' = "done"
    /\ UNCHANGED <<gs_lines, gs_lineNum>>

-----------------------------------------------------------------------------
(* SpecPrompt: the per-file sections of BuildBatchPrompt *)

\* longest list of files handed to BuildBatchPrompt alone
MaxPromptFiles == 2

\* Go's "<" on the paths of the model: PathAt lists them in ascending order
PathRank(path) == CHOOSE i \in 1..Len(PathAt) : PathAt[i] = path
PathLess(p, q) == PathRank(p) < PathRank(q)

\* one step of the insertion sort that sort.Slice and sort.Ints run on a
\* short list: x goes in front of the first element whose key is greater
RECURSIVE insertSorted(_, _, _)
insertSorted(sorted, x, key) ==
    IF sorted = <<>> THEN <<x>>
    ELSE IF key[x] < key[Head(sorted)] THEN <<x>> \o sorted
    ELSE <<Head(sorted)>> \o insertSorted(Tail(sorted), x, key)

RECURSIVE sortLoop(_, _, _, _)
sortLoop(list, i, sorted, key) ==
    IF i > Len(list) THEN sorted
    ELSE sortLoop(list, i + 1, insertSorted(sorted, list[i], key), key)

\* "sort.Slice(sortedIndices, func(i, j) { files[..i].NewPath < files[..j].NewPath })"
sortedIndices_inputOrder(files) == [i \in 1..Len(files) |-> i]
sortedIndices(files) ==
    sortLoop([i \in 1..Len(files) |-> i], 1, <<>>,
             [i \in 1..Len(files) |-> PathRank(files[i].NewPath)])

\* "copy(sortedLines, contexts[i].ChangedLines); sort.Ints(sortedLines)"
sortedLines(changedLines) ==
    sortLoop(changedLines, 1, <<>>, [v \in Range(changedLines) |-> v])

\* "contexts[i] != nil && len(contexts[i].Surrounding) > 0"
hasContextSection(ctx) ==
    IF ctx = NULL THEN FALSE ELSE Cardinality(DOMAIN ctx.Surrounding) > 0

\* the "Line %d context:" entries written for one file, in writing order
RECURSIVE contextEntries(_, _, _)
contextEntries(ctx, lineNums, k) ==
    IF k > Len(lineNums) THEN <<>>
    ELSE LET lineNum == lineNums[k]
             written == /\ lineNum \in DOMAIN ctx.Surrounding
                        /\ ctx.Surrounding[lineNum] # <<>>
         IN  (IF written
              THEN <<[line |-> lineNum, window |-> ctx.Surrounding[lineNum]]>>
              ELSE <<>>) \o contextEntries(ctx, lineNums, k + 1)

\* BuildBatchPrompt, the part between "## Files Being Reviewed" and the
\* instructions: the sections "### File idx+1: path", each with its diff and
\* its context entries
BuildBatchPrompt(files, contexts) ==
    LET order == sortedIndices(files) IN
    [idx \in 1..Len(order) |->
        LET i == order[idx] IN
        [num |-> idx,
         path |-> files[i].NewPath,
         diff |-> files[i].Diff,
         context |-> hasContextSection(contexts[i]),
         entries |-> IF hasContextSection(contexts[i])
                     THEN contextEntries(contexts[i],
                                         sortedLines(contexts[i].ChangedLines), 1)
                     ELSE <<>>]]

PromptPaths == {"a.ts", "b.tsx", "c.js"}

\* diff texts of a file: deletions only, one added line, and the staged and
\* the unstaged diff of a file one after the other, whose added lines come
\* out of ParseChangedLines as <<4, 2>>, <<3, 3>> and <<2, 9>>
PromptDiffs ==
    { FileHeader \o <<Hunk(2), Line("del")>>,
      FileHeader \o <<Hunk(2), Line("add")>>,
      FileHeader \o <<Hunk(4), Line("add")>> \o FileHeader \o <<Hunk(2), Line("add")>>,
      FileHeader \o <<Hunk(3), Line("add")>> \o FileHeader \o <<Hunk(3), Line("add")>>,
      FileHeader \o <<Hunk(2), Line("add")>> \o FileHeader \o <<Hunk(9), Line("add")>> }

\* a file of three lines, or a file whose content cannot be had
PromptRepoFiles ==
    { [head |-> ContentOf(3), worktree |-> ContentOf(3)],
      [head |-> NoFile, worktree |-> NoFile] }

PromptFiles ==
    {ps \in SeqsUpTo(PromptPaths, MaxPromptFiles) :
        \A i, j \in 1..Len(ps) : i # j => ps[i] # ps[j]}

IdlePrompt ==
    /\ bp_pc = "idle" /\ bp_useTreeSitter = FALSE
    /\ bp_batch = <<>> /\ bp_repo = <<>>
    /\ bp_files = <<>> /\ bp_contexts = <<>> /\ bp_out = <<>>

\* reviewBatch entered with a batch of files in any order
InitPrompt ==
    /\ bp_pc = "enrich"
    /\ bp_useTreeSitter \in BOOLEAN
    /\ \E ps \in PromptFiles :
         /\ \E ds \in [1..Len(ps) -> PromptDiffs] :
                bp_batch = [i \in 1..Len(ps) |->
                               localChangesRecord(ps[i], ds[i])]
         /\ bp_repo \in [1..Len(ps) -> PromptRepoFiles]
    /\ bp_files = <<>> /\ bp_contexts = <<>> /\ bp_out = <<>>

\* reviewBatch: one iteration of "for _, diff := range batch.Files"
BpEnrichFile ==
    /\ bp_pc = "enrich"
    /\ Len(bp_files) < Len(bp_batch)
    /\ LET k == Len(bp_files) + 1
           r == enrichStep(bp_useTreeSitter, FALSE, bp_repo[k], bp_batch[k])
       IN  /\ bp_files' = appendEnriched(bp_files, r)
           /\ bp_contexts' = appendContext(bp_contexts, r)
    /\ UNCHANGED <<bp_pc, bp_useTreeSitter, bp_batch, bp_repo, bp_out>>

\* Client.ReviewBatch: "buildBatchPrompt(bestPractices, diffs, contexts)";
\* contexts[i] with too short a list of contexts is an index out of range
CallBuildBatchPrompt ==
    /\ bp_pc = "enrich"
    /\ Len(bp_files) = Len(bp_batch)
    /\ IF Len(bp_contexts) >= Len(bp_files)
       THEN bp_out' = BuildBatchPrompt(bp_files, bp_contexts) /\ bp_pc' = "done"
       ELSE bp_out' = <<>> /\ bp_pc' = "panic"
    /\ UNCHANGED <<bp_useTreeSitter, bp_batch, bp_repo, bp_files, bp_contexts>>

-----------------------------------------------------------------------------
(* SpecReply: a message content parsed behind Client.ReviewBatch *)

\* longest message content, in pieces
MaxTextLen == 4

TextPieces ==
    { Fence, JsonWord, Space, Word, ObjectEnd, ObjectStart(<<>>),
      ObjectStart(<<ReviewComment("a.ts", 1, <<"issue">>)>>) }

Texts == SeqsUpTo(TextPieces, MaxTextLen)

\* the endpoint answers 200 with an envelope whose first message is the text
Replied(text) == Exchange(FALSE, 200, TRUE, <<text>>)

IdleReply ==
    /\ rp_pc = "idle" /\ rp_raw = <<>>
    /\ rp_out = [resp |-> NoResponse, err |-> FALSE]
    /\ rp_fenced = NoResponse

InitReply ==
    /\ rp_pc = "received"
    /\ rp_raw \in Texts
    /\ rp_out = [resp |-> NoResponse, err |-> FALSE]
    /\ rp_fenced = NoResponse

\* Client.ReviewBatch from the decoded envelope on
RpReviewBatch ==
    /\ rp_pc = "received"
    /\ rp_out' = ClientReviewBatch(TRUE, Replied(rp_raw))
    /\ rp_pc' = "parsed"
    /\ UNCHANGED <<rp_raw, rp_fenced>>

\* parseBatchResponse of the same text wrapped in a fenced block
RpParseFenced ==
    /\ rp_pc = "parsed"
    /\ rp_fenced' = parseBatchResponse(Fenced(rp_raw))
    /\ rp_pc' = "done"
    /\ UNCHANGED <<rp_raw, rp_out>>

-----------------------------------------------------------------------------
(* SpecFilter: filter.FilterEligible *)

\* longest list handed to FilterEligible alone
MaxFilterFiles == 3

\* the needles of containsAny that a path contains
markersIn(path) ==
    CASE path = "node_modules/x.ts" -> {"node_modules"}
      [] path = "dist/y.js" -> {"dist"}
      [] path = "src/distance.ts" -> {"dist"}
      [] path = ".gitlab/z.tsx" -> {".gitlab"}
      [] OTHER -> {}

hasAnySuffix(path, suffixes) == \E suffix \in suffixes : HasSuffix(path, suffix)

containsAny(path, needles) ==
    \E needle \in needles : needle # "" /\ needle \in markersIn(path)

shouldSkip_suffixOnly(path) ==
    ~hasAnySuffix(path, {".ts", ".tsx", ".js", ".jsx"})
shouldSkip(path) ==
    IF path = "" THEN TRUE
    ELSE IF hasAnySuffix(path, {".md", ".json"}) THEN TRUE
    ELSE IF containsAny(path, {"node_modules", "dist", ".gitlab"}) THEN TRUE
    ELSE ~hasAnySuffix(path, {".ts", ".tsx", ".js", ".jsx"})

\* "path := diff.NewPath; if path == "" { path = diff.OldPath }"
resolvedPath(diff) == IF diff.NewPath = "" THEN diff.OldPath ELSE diff.NewPath

\* "limit > 0 && len(result) >= limit"
capReached_late(limit, result) == limit > 0 /\ Len(result) > limit
capReached(limit, result) == limit > 0 /\ Len(result) >= limit

RECURSIVE filterLoop(_, _, _, _)
filterLoop(files, i, result, limit) ==
    IF i > Len(files) THEN result
    ELSE IF shouldSkip(resolvedPath(files[i]))
    THEN filterLoop(files, i + 1, result, limit)
    ELSE LET appended == Append(result, files[i]) IN
         IF capReached(limit, appended) THEN appended
         ELSE filterLoop(files, i + 1, appended, limit)

FilterEligible(files, limit) == filterLoop(files, 1, <<>>, limit)

\* a file record by its two paths
Renamed(oldPath, newPath) ==
    [FileDiff(newPath, <<>>, 0, 0) EXCEPT !.OldPath = oldPath]

FilterFileChoices ==
    { Renamed("a.ts", "a.ts"), Renamed("c.js", "d.jsx"), Renamed("b.tsx", ""),
      Renamed("", ""), Renamed("README.md", ""), Renamed("a.ts", "package.json"),
      Renamed("a.ts", "node_modules/x.ts"), Renamed("dist/y.js", "dist/y.js"),
      Renamed("a.ts", "src/distance.ts"), Renamed("", ".gitlab/z.tsx"),
      Renamed("main.go", "main.go") }

FilterLimits == 0..(MaxFilterFiles - 1)

IdleFilter ==
    /\ fe_pc = "idle" /\ fe_files = <<>> /\ fe_limit = 0 /\ fe_out = <<>>

InitFilter ==
    /\ fe_pc = "call"
    /\ fe_files \in SeqsUpTo(FilterFileChoices, MaxFilterFiles)
    /\ fe_limit \in FilterLimits
    /\ fe_out = <<>>

CallFilterEligible ==
    /\ fe_pc = "call"
    /\ fe_out' = FilterEligible(fe_files, fe_limit)
    /\ fe_pc' = "done"
    /\ UNCHANGED <<fe_files, fe_limit>>

-----------------------------------------------------------------------------
(* SpecSeverity: the marker and the color PrintLocal picks for a comment *)

\* most words of a severity text
MaxSeverityWords == 3

SeverityWords ==
    { "blocking", "Blocking", "question", "Question", "issue", "Issue",
      "suggestion", "Suggestion", "non", "critical" }

IdleSeverity ==
    /\ sv_pc = "idle" /\ sv_severity = <<>> /\ sv_emoji = "" /\ sv_color = ""

InitSeverity ==
    /\ sv_pc = "print"
    /\ sv_severity \in SeqsUpTo(SeverityWords, MaxSeverityWords)
    /\ sv_emoji = "" /\ sv_color = ""

\* PrintLocal: "emoji := getSeverityEmoji(c.Severity)" and
\* "color := getSeverityColor(c.Severity)"
PrintComment ==
    /\ sv_pc = "print"
    /\ sv_emoji' = getSeverityEmoji(sv_severity)
    /\ sv_color' = getSeverityColor(sv_severity)
    /\ sv_pc' = "printed"
    /\ UNCHANGED sv_severity

-----------------------------------------------------------------------------
(* SpecClient: Client.ReviewBatch against every answer of the endpoint *)

\* most choices in an envelope
MaxChoices == 2

\* message texts of a choice: none, prose, a JSON object and a fenced one
ClientTexts ==
    { EmptyText, BadText,
      JSONText(<<ReviewComment("a.ts", 1, <<"issue">>)>>),
      Fenced(JSONText(<<ReviewComment("b.tsx", 2, <<"Suggestion", "blocking">>)>>)) }

ClientStatuses == {200, 204, 299, 300, 404, 500}

IdleClient ==
    /\ cl_pc = "idle" /\ cl_endpointOk = FALSE
    /\ cl_exchange = Exchange(TRUE, 0, FALSE, <<>>)
    /\ cl_out = [resp |-> NoResponse, err |-> FALSE]

InitClient ==
    /\ cl_pc = "called"
    /\ cl_endpointOk \in BOOLEAN
    /\ \E t \in BOOLEAN, st \in ClientStatuses, env \in BOOLEAN,
          cs \in SeqsUpTo(ClientTexts, MaxChoices) :
          cl_exchange = Exchange(t, st, env, cs)
    /\ cl_out = [resp |-> NoResponse, err |-> FALSE]

\* Client.ReviewBatch
CallReviewBatch ==
    /\ cl_pc = "called"
    /\ cl_out' = ClientReviewBatch(cl_endpointOk, cl_exchange)
    /\ cl_pc' = "returned"
    /\ UNCHANGED <<cl_endpointOk, cl_exchange>>

-----------------------------------------------------------------------------
(* SpecPrint: PrintLocal applied to every bounded list of comments.  The    *)
(* printed text is kept as what the claims look at: whether the all-clear   *)
(* message was printed, the file groups in printing order with their        *)
(* comments in printing order, and the two numbers of the last line.        *)

\* most comments in a list
MaxComments == 3

PrintPaths == {"a.ts", "b.tsx", "c.js"}
PrintLines == {1, 2, 7}

PrintComments ==
    {ReviewComment(f, l, <<"issue">>) : f \in PrintPaths, l \in PrintLines}

\* "byFile[c.FilePath] = append(byFile[c.FilePath], c)" over the comments
byFile(comments) ==
    [f \in {c.FilePath : c \in Range(comments)} |->
        SelectSeq(comments, LAMBDA c : c.FilePath = f)]

\* "for file := range byFile { files = append(files, file) }": Go iterates
\* over a map in an unspecified order, so the slice is any arrangement of the
\* keys
keysInAnyOrder(m) ==
    {files \in [1..Cardinality(DOMAIN m) -> DOMAIN m] : Range(files) = DOMAIN m}

\* "sort.Strings(files)"
sortStrings_asIterated(files) == files
sortStrings(files) ==
    sortLoop(files, 1, <<>>, [f \in Range(files) |-> PathRank(f)])

\* "sort.Slice(fileComments, func(i, j) { fileComments[i].Line < fileComments[j].Line })"
sortByLine(fileComments) ==
    sortLoop(fileComments, 1, <<>>, [c \in Range(fileComments) |-> c.Line])

AllClear == [allClear |-> TRUE, groups |-> <<>>, footer |-> <<>>]

\* PrintLocal; files is the slice of map keys as the iteration yielded them
PrintLocal(comments, files) ==
    IF Len(comments) = 0 THEN AllClear
    ELSE LET sorted == sortStrings(files)
             groups == [k \in 1..Len(sorted) |->
                           [file |-> sorted[k],
                            comments |-> sortByLine(byFile(comments)[sorted[k]])]]
             totalIssues == SumSeq([k \in 1..Len(sorted) |->
                                       Len(byFile(comments)[sorted[k]])])
         IN  [allClear |-> FALSE, groups |-> groups,
              footer |-> <<totalIssues, Len(files)>>]

IdlePrint ==
    /\ pl_pc = "idle" /\ pl_comments = <<>>
    /\ pl_out = [allClear |-> FALSE, groups |-> <<>>, footer |-> <<>>]

InitPrint ==
    /\ pl_pc = "called"
    /\ pl_comments \in SeqsUpTo(PrintComments, MaxComments)
    /\ pl_out = [allClear |-> FALSE, groups |-> <<>>, footer |-> <<>>]

CallPrintLocal ==
    /\ pl_pc = "called"
    /\ \E files \in keysInAnyOrder(byFile(pl_comments)) :
          pl_out' = PrintLocal(pl_comments, files)
    /\ pl_pc' = "printed"
    /\ UNCHANGED pl_comments

-----------------------------------------------------------------------------
(* SpecMain: one run of main, from the arguments to the exit code.  The     *)
(* review itself is kept as the steps it takes: the source-control          *)
(* enumeration, the batches and one request per batch.  Temperatures are    *)
(* in tenths.                                                               *)

\* most batches of a run
MaxRunBatches == 2

\* "envFloat("REVIEW_TEMPERATURE", 0.0)": the fallback
DefaultTemperature == 0

\* "temperature": 0.1 in the payload of Client.ReviewBatch
RequestTemperature == 1

\* a flag: passed on the command line with a value, or not passed
Passed(v) == [given |-> TRUE, v |-> v]
NotPassed == [given |-> FALSE, v |-> ""]
NumberNotPassed == [given |-> FALSE, v |-> 0]

\* an environment variable holding a number: parsable or not (unset, or
\* rejected by strconv.ParseFloat)
EnvNumber(v) == [ok |-> TRUE, v |-> v]
NoEnvNumber == [ok |-> FALSE, v |-> 0]

\* pflag: the flag's value is its default unless the flag was passed
flagValue(flag, default) == IF flag.given THEN flag.v ELSE default

\* envFloat
envFloat(val, fallback) == IF val.ok THEN val.v ELSE fallback

\* defaultRulesDir
defaultRulesDir == ""

NoConfig == [AIToken |-> "", Temperature |-> 0, Guidelines |-> ""]

\* loadConfig
loadConfig(args) ==
    LET aiToken == flagValue(args.aiToken, args.envToken)
        temp == flagValue(args.temperature,
                          envFloat(args.envTemperature, DefaultTemperature))
        rulesFile == flagValue(args.rulesFile, "")
        rulesDir == flagValue(args.rulesDir, defaultRulesDir)
        rulesPath == IF rulesFile # "" THEN rulesFile ELSE rulesDir
    IN  IF aiToken = "" THEN [err |-> TRUE, cfg |-> NoConfig]
        ELSE IF rulesPath = "" THEN [err |-> TRUE, cfg |-> NoConfig]
        ELSE [err |-> FALSE,
              cfg |-> [AIToken |-> aiToken, Temperature |-> temp,
                       Guidelines |-> rulesPath]]

\* strings.HasSuffix(path, ".md") on the paths of the model
HasSuffixMd(path) == path \in {"rules.md"}

\* what is on disk at the rules path: nothing, a file, or a directory with
\* so many entries matching *.md; readable tells whether os.ReadFile
\* succeeds on every document
OnDisk(exists, isDir, matches, readable) ==
    [exists |-> exists, isDir |-> isDir, matches |-> matches,
     readable |-> readable]

\* LoadBestPractices; the text is kept as the number of documents in it
LoadBestPractices_lenient(path, disk) ==
    IF path = "" \/ ~disk.exists THEN [err |-> TRUE, text |-> 0]
    ELSE IF ~disk.isDir /\ ~HasSuffixMd(path) THEN [err |-> TRUE, text |-> 0]
    ELSE IF disk.isDir /\ disk.matches = 0 THEN [err |-> FALSE, text |-> 0]
    ELSE IF ~disk.readable THEN [err |-> TRUE, text |-> 0]
    ELSE [err |-> FALSE, text |-> IF disk.isDir THEN disk.matches ELSE 1]
LoadBestPractices(path, disk) ==
    IF path = "" \/ ~disk.exists THEN [err |-> TRUE, text |-> 0]      \* "stat"
    ELSE IF disk.isDir /\ disk.matches = 0
    THEN [err |-> TRUE, text |-> 0]             \* "no markdown files found"
    ELSE IF ~disk.isDir /\ ~HasSuffixMd(path)
    THEN [err |-> TRUE, text |-> 0]             \* "rules file must be a .md"
    ELSE IF ~disk.readable THEN [err |-> TRUE, text |-> 0]            \* "read"
    ELSE [err |-> FALSE, text |-> IF disk.isDir THEN disk.matches ELSE 1]

\* ai.NewClient
NoClient == [apiKey |-> "", temperature |-> 0]
NewClient(apiKey, temperature) ==
    [apiKey |-> apiKey, temperature |-> temperature]

\* the payload Client.ReviewBatch marshals: the field "temperature"
requestPayload(c) == [temperature |-> RequestTemperature]

\* the steps of a run that the claims look at
Event(op) == [op |-> op, temperature |-> 0, comments |-> <<>>]
Request(temperature, comments) ==
    [op |-> "request", temperature |-> temperature, comments |-> comments]

EventsOf(op) == {i \in 1..Len(mn_trace) : mn_trace[i].op = op}

\* the comments Review returns: those of every reply, in order
runComments == Flatten([i \in 1..Len(mn_trace) |-> mn_trace[i].comments])

MainArgs ==
    [aiToken : {NotPassed, Passed(""), Passed("tok")},
     envToken : {"", "tok"},
     temperature : {NumberNotPassed, Passed(1), Passed(3)},
     envTemperature : {NoEnvNumber, EnvNumber(7)},
     rulesFile : {NotPassed, Passed("rules.md"), Passed("notes.txt"),
                  Passed("rules")},
     rulesDir : {NotPassed, Passed("rules")}]

RulesOnDisk ==
    { OnDisk(FALSE, FALSE, 0, FALSE),
      OnDisk(TRUE, FALSE, 0, TRUE), OnDisk(TRUE, FALSE, 0, FALSE),
      OnDisk(TRUE, TRUE, 0, TRUE),
      OnDisk(TRUE, TRUE, 2, TRUE), OnDisk(TRUE, TRUE, 2, FALSE) }

\* what the endpoint answers to a request
RunReplies ==
    { <<>>, <<ReviewComment("a.ts", 1, Critical)>>,
      <<ReviewComment("a.ts", 1, <<"Suggestion", "blocking">>)>> }

IdleMain ==
    /\ mn_pc = "idle"
    /\ mn_args = [aiToken |-> NotPassed, envToken |-> "",
                  temperature |-> NumberNotPassed, envTemperature |-> NoEnvNumber,
                  rulesFile |-> NotPassed, rulesDir |-> NotPassed]
    /\ mn_rules = OnDisk(FALSE, FALSE, 0, FALSE)
    /\ mn_cfg = NoConfig /\ mn_client = NoClient
    /\ mn_trace = <<>> /\ mn_exit = Running

InitMain ==
    /\ mn_pc = "start"
    /\ mn_args \in MainArgs
    /\ mn_rules \in RulesOnDisk
    /\ mn_cfg = NoConfig /\ mn_client = NoClient
    /\ mn_trace = <<>> /\ mn_exit = Running

\* "cfg, err := loadConfig(); if err != nil { exitWithError(err) }"
MnLoadConfig ==
    /\ mn_pc = "start"
    /\ LET r == loadConfig(mn_args) IN
       IF r.err
       THEN /\ mn_pc' = "exited" /\ mn_exit' = <<1>>
            /\ UNCHANGED <<mn_cfg, mn_trace>>
       ELSE /\ mn_pc' = "configured" /\ mn_cfg' = r.cfg
            /\ mn_trace' = Append(mn_trace, Event("loadConfig"))
            /\ UNCHANGED mn_exit
    /\ UNCHANGED <<mn_args, mn_rules, mn_client>>

\* "best, err := bestpractices.LoadBestPractices(cfg.Guidelines)"
MnLoadBestPractices ==
    /\ mn_pc = "configured"
    /\ LET r == LoadBestPractices(mn_cfg.Guidelines, mn_rules) IN
       IF r.err
       THEN /\ mn_pc' = "exited" /\ mn_exit' = <<1>>
            /\ UNCHANGED mn_trace
       ELSE /\ mn_pc' = "loaded"
            /\ mn_trace' = Append(mn_trace, Event("LoadBestPractices"))
            /\ UNCHANGED mn_exit
    /\ UNCHANGED <<mn_args, mn_rules, mn_cfg, mn_client>>

\* "aiClient := ai.NewClient(cfg.AIToken, ..., cfg.Temperature)"
MnNewClient ==
    /\ mn_pc = "loaded"
    /\ mn_client' = NewClient(mn_cfg.AIToken, mn_cfg.Temperature)
    /\ mn_pc' = "client"
    /\ UNCHANGED <<mn_args, mn_rules, mn_cfg, mn_trace, mn_exit>>

\* "diffs, err := git.LocalChanges(...)": the source-control commands run,
\* and fail or yield the changed files
MnLocalChanges ==
    /\ mn_pc = "client"
    /\ mn_trace' = Append(mn_trace, Event("git"))
    /\ \E failed \in BOOLEAN :
          IF failed
          THEN mn_pc' = "exited" /\ mn_exit' = <<1>>
          ELSE mn_pc' = "enumerated" /\ UNCHANGED mn_exit
    /\ UNCHANGED <<mn_args, mn_rules, mn_cfg, mn_client>>

\* review.Review: "batches := createBatches(diffs, 100)", one event a batch
MnCreateBatches ==
    /\ mn_pc = "enumerated"
    /\ \E n \in 0..MaxRunBatches :
          mn_trace' = mn_trace \o [i \in 1..n |-> Event("batch")]
    /\ mn_pc' = "batched"
    /\ UNCHANGED <<mn_args, mn_rules, mn_cfg, mn_client, mn_exit>>

\* reviewBatch -> Client.ReviewBatch: the request of the next batch
MnDispatch ==
    /\ mn_pc = "batched"
    /\ Cardinality(EventsOf("request")) < Cardinality(EventsOf("batch"))
    /\ \E reply \in RunReplies :
          mn_trace' = Append(mn_trace,
                             Request(requestPayload(mn_client).temperature,
                                     reply))
    /\ UNCHANGED <<mn_pc, mn_args, mn_rules, mn_cfg, mn_client, mn_exit>>

\* "output.PrintLocal(comments); if CountSeverity(comments, "critical") > 0
\* { os.Exit(1) }"
MnExit ==
    /\ mn_pc = "batched"
    /\ Cardinality(EventsOf("request")) = Cardinality(EventsOf("batch"))
    /\ mn_exit' = <<exitCode(runComments)>>
    /\ mn_pc' = "exited"
    /\ UNCHANGED <<mn_args, mn_rules, mn_cfg, mn_client, mn_trace>>

-----------------------------------------------------------------------------
(* The specifications *)

IdlePipeline == IdleBatch /\ IdleParse /\ IdleEnum /\ IdleEnrich /\ IdleReview
IdleRuns == IdleClient /\ IdlePrint /\ IdleMain
IdleUnits ==
    IdleWindow /\ IdlePrompt /\ IdleReply /\ IdleFilter /\ IdleSeverity /\ IdleRuns

NextBatch ==
    CallCreateBatches /\ UNCHANGED <<parseVars, enumVars, enrichVars, reviewVars, unitVars>>
StartBatch == InitBatch /\ IdleParse /\ IdleEnum /\ IdleEnrich /\ IdleReview /\ IdleUnits
SpecBatch == StartBatch /\ [][NextBatch]_vars

NextParse ==
    CallParseChangedLines /\ UNCHANGED <<batchVars, enumVars, enrichVars, reviewVars, unitVars>>
StartParse == IdleBatch /\ InitParse /\ IdleEnum /\ IdleEnrich /\ IdleReview /\ IdleUnits
SpecParse == StartParse /\ [][NextParse]_vars

NextEnum ==
    \/ LcChangedFiles /\ UNCHANGED <<batchVars, parseVars, enrichVars, reviewVars, unitVars>>
    \/ LcDiffFile /\ UNCHANGED <<batchVars, parseVars, enrichVars, reviewVars, unitVars>>
    \/ LcReturn /\ UNCHANGED <<batchVars, parseVars, enrichVars, reviewVars, unitVars>>
StartEnum == IdleBatch /\ IdleParse /\ InitEnum /\ IdleEnrich /\ IdleReview /\ IdleUnits
SpecEnum == StartEnum /\ [][NextEnum]_vars

NextEnrich ==
    \/ EnDiffFile /\ UNCHANGED <<batchVars, parseVars, enumVars, reviewVars, unitVars>>
    \/ EnEnrich /\ UNCHANGED <<batchVars, parseVars, enumVars, reviewVars, unitVars>>
StartEnrich == IdleBatch /\ IdleParse /\ IdleEnum /\ InitEnrich /\ IdleReview /\ IdleUnits
SpecEnrich == StartEnrich /\ [][NextEnrich]_vars

Init == IdleBatch /\ IdleParse /\ IdleEnum /\ IdleEnrich /\ InitReview /\ IdleUnits
Next ==
    \/ RvCreateBatches /\ UNCHANGED <<batchVars, parseVars, enumVars, enrichVars, unitVars>>
    \/ RvEnrichFile /\ UNCHANGED <<batchVars, parseVars, enumVars, enrichVars, unitVars>>
    \/ RvDispatch /\ UNCHANGED <<batchVars, parseVars, enumVars, enrichVars, unitVars>>
    \/ RvReturn /\ UNCHANGED <<batchVars, parseVars, enumVars, enrichVars, unitVars>>
    \/ MainExit /\ UNCHANGED <<batchVars, parseVars, enumVars, enrichVars, unitVars>>
Spec == Init /\ [][Next]_vars

NextWindow ==
    CallGetSurroundingLines
        /\ UNCHANGED <<pipelineVars, promptVars, replyVars, filterVars, severityVars,
                        runVars>>
StartWindow ==
    IdlePipeline /\ InitWindow /\ IdlePrompt /\ IdleReply /\ IdleFilter /\ IdleSeverity
        /\ IdleRuns
SpecWindow == StartWindow /\ [][NextWindow]_vars

NextPrompt ==
    \/ BpEnrichFile
          /\ UNCHANGED <<pipelineVars, windowVars, replyVars, filterVars, severityVars,
                        runVars>>
    \/ CallBuildBatchPrompt
          /\ UNCHANGED <<pipelineVars, windowVars, replyVars, filterVars, severityVars,
                        runVars>>
StartPrompt ==
    IdlePipeline /\ IdleWindow /\ InitPrompt /\ IdleReply /\ IdleFilter /\ IdleSeverity
        /\ IdleRuns
SpecPrompt == StartPrompt /\ [][NextPrompt]_vars

NextReply ==
    \/ RpReviewBatch
          /\ UNCHANGED <<pipelineVars, windowVars, promptVars, filterVars, severityVars,
                        runVars>>
    \/ RpParseFenced
          /\ UNCHANGED <<pipelineVars, windowVars, promptVars, filterVars, severityVars,
                        runVars>>
StartReply ==
    IdlePipeline /\ IdleWindow /\ IdlePrompt /\ InitReply /\ IdleFilter /\ IdleSeverity
        /\ IdleRuns
SpecReply == StartReply /\ [][NextReply]_vars

NextFilter ==
    CallFilterEligible
        /\ UNCHANGED <<pipelineVars, windowVars, promptVars, replyVars, severityVars,
                        runVars>>
StartFilter ==
    IdlePipeline /\ IdleWindow /\ IdlePrompt /\ IdleReply /\ InitFilter /\ IdleSeverity
        /\ IdleRuns
SpecFilter == StartFilter /\ [][NextFilter]_vars

NextSeverity ==
    PrintComment
        /\ UNCHANGED <<pipelineVars, windowVars, promptVars, replyVars, filterVars,
                        runVars>>
StartSeverity ==
    IdlePipeline /\ IdleWindow /\ IdlePrompt /\ IdleReply /\ IdleFilter /\ InitSeverity
        /\ IdleRuns
SpecSeverity == StartSeverity /\ [][NextSeverity]_vars

NextClient ==
    CallReviewBatch
        /\ UNCHANGED <<pipelineVars, windowVars, promptVars, replyVars, filterVars,
                        severityVars, printVars, mainVars>>
StartClient ==
    IdlePipeline /\ IdleWindow /\ IdlePrompt /\ IdleReply /\ IdleFilter /\ IdleSeverity
        /\ InitClient /\ IdlePrint /\ IdleMain
SpecClient == StartClient /\ [][NextClient]_vars

NextPrint ==
    CallPrintLocal
        /\ UNCHANGED <<pipelineVars, windowVars, promptVars, replyVars, filterVars,
                        severityVars, clientVars, mainVars>>
StartPrint ==
    IdlePipeline /\ IdleWindow /\ IdlePrompt /\ IdleReply /\ IdleFilter /\ IdleSeverity
        /\ IdleClient /\ InitPrint /\ IdleMain
SpecPrint == StartPrint /\ [][NextPrint]_vars

NextMain ==
    \/ MnLoadConfig /\ UNCHANGED <<pipelineVars, windowVars, promptVars, replyVars,
                                   filterVars, severityVars, clientVars, printVars>>
    \/ MnLoadBestPractices
          /\ UNCHANGED <<pipelineVars, windowVars, promptVars, replyVars,
                         filterVars, severityVars, clientVars, printVars>>
    \/ MnNewClient /\ UNCHANGED <<pipelineVars, windowVars, promptVars, replyVars,
                                  filterVars, severityVars, clientVars, printVars>>
    \/ MnLocalChanges /\ UNCHANGED <<pipelineVars, windowVars, promptVars, replyVars,
                                     filterVars, severityVars, clientVars, printVars>>
    \/ MnCreateBatches /\ UNCHANGED <<pipelineVars, windowVars, promptVars, replyVars,
                                      filterVars, severityVars, clientVars, printVars>>
    \/ MnDispatch /\ UNCHANGED <<pipelineVars, windowVars, promptVars, replyVars,
                                 filterVars, severityVars, clientVars, printVars>>
    \/ MnExit /\ UNCHANGED <<pipelineVars, windowVars, promptVars, replyVars,
                             filterVars, severityVars, clientVars, printVars>>
StartMain ==
    IdlePipeline /\ IdleWindow /\ IdlePrompt /\ IdleReply /\ IdleFilter /\ IdleSeverity
        /\ IdleClient /\ IdlePrint /\ InitMain
\* main is sequential and each of its steps ends (the request by the
\* client's 60 s timeout at the latest), so a run that can take a step does
SpecMain == StartMain /\ [][NextMain]_vars /\ WF_vars(NextMain)

-----------------------------------------------------------------------------
(* Properties *)

BatchFiles(batches) == [b \in 1..Len(batches) |-> batches[b].Files]

FileChanges(files) == [k \in 1..Len(files) |-> Changes(files[k])]

\* files f and g stand next to each other, in this order, in one batch
SameBatch(batches, f, g) ==
    \E b \in 1..Len(batches) :
        \E k \in 1..(Len(batches[b].Files) - 1) :
            batches[b].Files[k] = f /\ batches[b].Files[k + 1] = g

\* C1: the batches createBatches returns, concatenated in batch order, are
\* the input list: no file dropped, duplicated, reordered or split.
C1_Partition ==
    cb_pc = "done" => Flatten(BatchFiles(cb_out)) = cb_diffs

C1_Witness ==
    /\ cb_pc = "done"
    /\ Len(cb_diffs) = 3
    /\ Len(cb_out) = 2
    /\ \E b \in 1..Len(cb_out) : Len(cb_out[b].Files) = 2

\* C2: a batch's change count is at most the budget unless the batch is one
\* file that alone exceeds the budget; a file whose count equals the budget is
\* not oversized: it shares its batch with a neighbour that adds no change.
C2_Budget ==
    cb_pc = "done" =>
        /\ \A b \in 1..Len(cb_out) :
              \/ SumSeq(FileChanges(cb_out[b].Files)) <= cb_max
              \/ /\ Len(cb_out[b].Files) = 1
                 /\ Changes(cb_out[b].Files[1]) > cb_max
        /\ \A i \in 1..(Len(cb_diffs) - 1) :
              (Changes(cb_diffs[i]) = cb_max /\ Changes(cb_diffs[i + 1]) = 0)
                  => SameBatch(cb_out, cb_diffs[i], cb_diffs[i + 1])
        /\ (/\ Len(cb_diffs) >= 2
            /\ Changes(cb_diffs[1]) = 0
            /\ Changes(cb_diffs[2]) = cb_max)
                  => SameBatch(cb_out, cb_diffs[1], cb_diffs[2])

C2_Witness ==
    /\ cb_pc = "done"
    /\ \E b \in 1..Len(cb_out) :
          Len(cb_out[b].Files) = 1 /\ Changes(cb_out[b].Files[1]) > cb_max
    /\ \E b \in 1..Len(cb_out) :
          /\ Len(cb_out[b].Files) = 2
          /\ Changes(cb_out[b].Files[1]) = cb_max
          /\ cb_max > 0

ScenarioDiffs == DiffList(<< <<5, 0>>, <<200, 0>> >>)

\* C3: a file that alone exceeds the budget is a batch of its own, after the
\* batches of the files before it and before those of the files after it;
\* [a.ts 5, b.tsx 200] with budget 100 gives [a.ts] (5) then [b.tsx] (200).
C3_Oversized ==
    cb_pc = "done" =>
        /\ \A i \in 1..Len(cb_diffs) :
              Changes(cb_diffs[i]) > cb_max =>
                  \E b \in 1..Len(cb_out) :
                      /\ cb_out[b] = [Files |-> <<cb_diffs[i]>>,
                                      TotalChanges |-> Changes(cb_diffs[i])]
                      /\ Flatten(BatchFiles(SubSeq(cb_out, 1, b - 1)))
                            = SubSeq(cb_diffs, 1, i - 1)
                      /\ Flatten(BatchFiles(SubSeq(cb_out, b + 1, Len(cb_out))))
                            = SubSeq(cb_diffs, i + 1, Len(cb_diffs))
        /\ (cb_diffs = ScenarioDiffs /\ cb_max = 100) =>
              cb_out = << [Files |-> <<ScenarioDiffs[1]>>, TotalChanges |-> 5],
                          [Files |-> <<ScenarioDiffs[2]>>, TotalChanges |-> 200] >>

C3_Witness ==
    /\ cb_pc = "done"
    /\ cb_diffs = ScenarioDiffs
    /\ cb_max = 100
    /\ Len(cb_out) = 2

\* C4: when a source-control invocation of change enumeration fails (the
\* listing, the merge base, the diff of a path), LocalChanges does not return
\* a list: a returned list means no such invocation failed.
C4_FailureAborts ==
    lc_pc = "returned" => lc_failed = {}

\* the dispatch of a batch fails: request not built, transport error or
\* timeout, non-success status, no envelope, no or empty first message
DispatchFails(endpointOk, e) ==
    \/ ~endpointOk
    \/ e.transportErr
    \/ e.status \notin 200..299
    \/ ~e.isEnvelope
    \/ e.choices = <<>>
    \/ e.choices[1] = EmptyText

\* the comments of the reply of a dispatch that succeeded
RepliedComments(e) ==
    LET m == fencedJSON(e.choices[1])
        u == Unmarshal(IF m.matched THEN m.group ELSE e.choices[1])
    IN  IF u.err THEN <<>> ELSE u.parsed.Comments

Contribution(endpointOk, e) ==
    IF DispatchFails(endpointOk, e) THEN <<>> ELSE RepliedComments(e)

\* C5: a batch whose dispatch fails contributes no comment and the later
\* batches are still dispatched; Review returns the comments of the batches
\* whose dispatch succeeded, concatenated in batch order.
C5_FailedBatchSkipped ==
    rv_pc = "done" =>
        /\ Len(rv_log) = Len(rv_batches)
        /\ \A i \in 1..Len(rv_log) : rv_log[i].batch = i
        /\ rv_comments =
              Flatten([i \in 1..Len(rv_log) |->
                          Contribution(rv_cfg.endpointOk, rv_log[i].exchange)])

C5_Witness ==
    /\ rv_pc = "done"
    /\ Len(rv_log) = 2
    /\ DispatchFails(rv_cfg.endpointOk, rv_log[1].exchange)
    /\ ~DispatchFails(rv_cfg.endpointOk, rv_log[2].exchange)
    /\ Len(rv_comments) > 0

\* C6 as stated: over a run the requests issued are one per batch, in batch
\* order.
C6_OneRequestPerBatch ==
    rv_pc = "done" => rv_requests = [i \in 1..Len(rv_batches) |-> i]

\* C6, amended: no batch gets more than one request and requests go out in
\* batch order (a failed request is never re-sent); their number is the number
\* of batches when the endpoint URL is accepted, and zero when it is not.
C6_AtMostOneRequest ==
    /\ \A i, j \in 1..Len(rv_requests) :
          i < j => rv_requests[i] < rv_requests[j]
    /\ rv_pc = "done" =>
          rv_requests = IF rv_cfg.endpointOk
                        THEN [i \in 1..Len(rv_batches) |-> i]
                        ELSE <<>>

C6_Witness ==
    /\ rv_pc = "done"
    /\ rv_cfg.endpointOk
    /\ Len(rv_batches) = 2
    /\ rv_log[1].exchange.transportErr
    /\ rv_requests = <<1, 2>>

\* the content of a file can be had neither from HEAD nor from the working tree
ContentMissing(repoFile) == repoFile.head = NoFile /\ repoFile.worktree = NoFile

\* C7: a file whose content cannot be retrieved goes into the batch's
\* dispatch as its original record with a null context, the other files of
\* the batch keep their enrichment, and every batch is dispatched.
C7_EnrichFailureFallsBack ==
    /\ \A k \in 1..Len(rv_log) :
          LET orig == rv_batches[rv_log[k].batch].Files
              files == rv_log[k].files
              contexts == rv_log[k].contexts
          IN  /\ Len(files) = Len(orig)
              /\ Len(contexts) = Len(orig)
              /\ \A j \in 1..Len(orig) :
                    IF ~rv_cfg.UseTreeSitter \/ ContentMissing(rv_repo[orig[j].NewPath])
                    THEN files[j] = orig[j] /\ contexts[j] = NULL
                    ELSE /\ files[j] = [orig[j] EXCEPT !.Language = languageOf(orig[j])]
                         /\ contexts[j] # NULL
                         /\ contexts[j].ChangedLines = ParseChangedLines(orig[j].Diff)
    /\ rv_pc = "done" => Len(rv_log) = Len(rv_batches)

C7_Witness ==
    /\ rv_cfg.UseTreeSitter
    /\ \E k \in 1..Len(rv_log) :
          /\ Len(rv_log[k].files) = 2
          /\ ContentMissing(rv_repo[rv_log[k].files[1].NewPath])
          /\ rv_log[k].contexts[1] = NULL
          /\ rv_log[k].contexts[2] # NULL

IsAdded(line) == line.kind = "add"

\* the position of the k-th added line of a diff text
NthAdded(diff, k) ==
    CHOOSE i \in 1..Len(diff) :
        IsAdded(diff[i]) /\ Cardinality({j \in 1..i : IsAdded(diff[j])}) = k

\* the position of the hunk header an added line at position i belongs to, or 0
HeaderOf(diff, i) ==
    LET hs == {h \in 1..(i - 1) : diff[h].kind \in {"hunk", "hunk1"}}
    IN  IF hs = {} THEN 0 ELSE CHOOSE h \in hs : \A g \in hs : g <= h

ScenarioDiff == <<Hunk(10), Line("ctx"), Line("add"), Line("ctx")>>

\* C8: every added line is recorded, in order; one under a header
\* "@@ -a,b +c,d @@" is recorded as c plus the number of added and context
\* lines between the header and it (deleted lines do not count); the header
\* "+10", context, added, context records [11].
C8_LineNumbers ==
    pd_pc = "done" =>
        /\ Len(pd_out) = Cardinality({i \in 1..Len(pd_diff) : IsAdded(pd_diff[i])})
        /\ \A k \in 1..Len(pd_out) :
              LET i == NthAdded(pd_diff, k)
                  h == HeaderOf(pd_diff, i)
              IN  (h > 0 /\ pd_diff[h].kind = "hunk") =>
                     pd_out[k] = pd_diff[h].start +
                        Cardinality({j \in (h + 1)..(i - 1) :
                                        pd_diff[j].kind \in {"add", "ctx"}})
        /\ pd_diff = ScenarioDiff => pd_out = <<11>>

C8_Witness ==
    /\ pd_pc = "done"
    /\ pd_diff = ScenarioDiff
    /\ pd_out = <<11>>

\* C9: the changed lines stored in a file's context are strictly ascending,
\* so no line number occurs twice.
C9_AscendingUnique ==
    (en_pc = "enriched" /\ ~en_out.err) =>
        \A i, j \in 1..Len(en_out.ctx.ChangedLines) :
            i < j => en_out.ctx.ChangedLines[i] < en_out.ctx.ChangedLines[j]

\* C10: the keys of Surrounding are exactly the line numbers of ChangedLines.
C10_KeysAreChangedLines ==
    (en_pc = "enriched" /\ ~en_out.err) =>
        DOMAIN en_out.ctx.Surrounding = Range(en_out.ctx.ChangedLines)

C10_Witness ==
    /\ en_pc = "enriched"
    /\ ~en_out.err
    /\ Len(en_out.ctx.ChangedLines) >= 2
    /\ \E l \in DOMAIN en_out.ctx.Surrounding : en_out.ctx.Surrounding[l] = <<>>
    /\ \E l \in DOMAIN en_out.ctx.Surrounding : en_out.ctx.Surrounding[l] # <<>>

\* C11: getSurroundingLines never reads a line index outside the file: for
\* every content and every line number L >= 0 (0, 1, the last line and beyond
\* the end included) each index it reads lies in [0, number of lines), and
\* for L = 1 the window starts at line 1 and ends at line min(n, 6).
C11_ReadsInsideFile ==
    gs_pc = "done" =>
        LET n == Len(gs_lines)
            w == gs_out.window
        IN  /\ ~gs_out.panic
            /\ \A k \in 1..Len(gs_reads) : 0 <= gs_reads[k] /\ gs_reads[k] < n
            /\ gs_lineNum = 1 =>
                  /\ w # <<>>
                  /\ w[1].num = 1
                  /\ w[Len(w)].num = Min(n, 6)
                  /\ \A k \in 1..Len(w) : w[k].num = k

C11_Witness ==
    /\ gs_pc = "done"
    /\ gs_lineNum = 1
    /\ Len(gs_lines) > 6
    /\ gs_reads = <<0, 1, 2, 3, 4, 5>>
    /\ gs_out.window[6].num = 6

\* the lines of a context for which a window that is not empty is stored
WrittenLines(ctx) ==
    IF ctx = NULL THEN {}
    ELSE {l \in DOMAIN ctx.Surrounding : ctx.Surrounding[l] # <<>>}

\* C12: the per-file sections come in ascending order of the files' new
\* path whatever the order of the input list, numbered File 1..N in that
\* order, each file having its own section; within a section the windows of
\* the changed lines come in ascending order of line number.
C12_SortedSections ==
    bp_pc = "done" =>
        /\ Len(bp_out) = Len(bp_files)
        /\ \A k \in 1..Len(bp_out) : bp_out[k].num = k
        /\ \A k \in 1..(Len(bp_out) - 1) :
              PathLess(bp_out[k].path, bp_out[k + 1].path)
        /\ \A i \in 1..Len(bp_files) :
              \E k \in 1..Len(bp_out) :
                 /\ bp_out[k].path = bp_files[i].NewPath
                 /\ {bp_out[k].entries[m].line : m \in 1..Len(bp_out[k].entries)}
                       = WrittenLines(bp_contexts[i])
                 /\ \A m \in 1..Len(bp_out[k].entries) :
                       bp_out[k].entries[m].window
                          = bp_contexts[i].Surrounding[bp_out[k].entries[m].line]
        /\ \A k \in 1..Len(bp_out) :
              \A m \in 1..(Len(bp_out[k].entries) - 1) :
                 bp_out[k].entries[m].line <= bp_out[k].entries[m + 1].line

C12_Witness ==
    /\ bp_pc = "done"
    /\ Len(bp_files) = 2
    /\ PathLess(bp_files[2].NewPath, bp_files[1].NewPath)
    /\ bp_out[1].path = bp_files[2].NewPath
    /\ bp_contexts[2] # NULL
    /\ bp_contexts[2].ChangedLines = <<4, 2>>
    /\ bp_out[1].entries[1].line = 2
    /\ bp_out[1].entries[2].line = 4

\* C13: for every JSON text J that decodes to a review response, strings
\* that contain three backticks included, parsing J wrapped in a fenced
\* json block returns exactly the response that decoding J unwrapped gives.
C13_FenceRoundTrip ==
    (rp_pc = "done" /\ ~Unmarshal(rp_raw).err) =>
        rp_fenced = Unmarshal(rp_raw).parsed

\* the payload the parser selects from a message content
SelectedPayload(raw) ==
    IF fencedJSON(raw).matched THEN fencedJSON(raw).group ELSE raw

MarkerSubstrings == {"node_modules", "dist", ".gitlab"}

\* a resolved path that is rejected whatever its extension
Rejected(path) ==
    \/ path = ""
    \/ Ext(path) \in {".md", ".json"}
    \/ markersIn(path) \cap MarkerSubstrings # {}

ResolvedOf(file) == IF file.NewPath # "" THEN file.NewPath ELSE file.OldPath

\* C15: FilterEligible never returns a file whose resolved path (the new
\* path, or the old path when the new path is empty) is empty, ends in .md
\* or .json, or contains node_modules, dist or .gitlab.
C15_NoRejectedFile ==
    fe_pc = "done" =>
        \A k \in 1..Len(fe_out) : ~Rejected(ResolvedOf(fe_out[k]))

C15_Witness ==
    /\ fe_pc = "done"
    /\ Len(fe_files) = 3
    /\ ResolvedOf(fe_files[1]) = "node_modules/x.ts"
    /\ ResolvedOf(fe_files[2]) = "b.tsx"
    /\ ResolvedOf(fe_files[3]) = "package.json"
    /\ Len(fe_out) = 1

Eligible(file) ==
    /\ Ext(ResolvedOf(file)) \in {".ts", ".tsx", ".js", ".jsx"}
    /\ ~Rejected(ResolvedOf(file))

\* C16: FilterEligible returns exactly the eligible files in their input
\* order, cut to the first limit of them when limit > 0 and not cut when
\* limit = 0.
C16_EligibleInOrder ==
    fe_pc = "done" =>
        LET eligible == SelectSeq(fe_files, Eligible) IN
        fe_out = IF fe_limit > 0 /\ Len(eligible) > fe_limit
                 THEN SubSeq(eligible, 1, fe_limit)
                 ELSE eligible

C16_Witness ==
    /\ fe_pc = "done"
    /\ fe_limit = 2
    /\ Len(SelectSeq(fe_files, Eligible)) = 3
    /\ fe_files[1] # fe_files[2]
    /\ fe_out = SubSeq(fe_files, 1, 2)

\* the lines of a diff text of a kind
LinesOfKind(diffText, kind) ==
    Cardinality({i \in 1..Len(diffText) : diffText[i].kind = kind})

\* C17: the additions of a changed-file record are the diff lines starting
\* with + other than the +++ header line, its deletions the diff lines
\* starting with - other than the --- header line.
C17_CountsExcludeHeaders ==
    en_pc \in {"enrich", "enriched"} =>
        /\ en_file.Additions = LinesOfKind(en_file.Diff, "add")
        /\ en_file.Deletions = LinesOfKind(en_file.Diff, "del")

\* the rule of the fixed order that a severity falls under
FirstRule(severity) ==
    LET lowered == ToLower(severity) IN
    IF \E k \in 1..Len(lowered) : lowered[k] = "blocking" THEN 1
    ELSE IF \E k \in 1..Len(lowered) : lowered[k] = "question" THEN 2
    ELSE IF \E k \in 1..Len(lowered) : lowered[k] = "issue" THEN 3
    ELSE IF \E k \in 1..Len(lowered) : lowered[k] = "suggestion" THEN 4
    ELSE 5

RuleEmoji ==
    <<"police light", "question mark", "warning sign", "light bulb", "information">>
RuleColor == <<"bold red", "bold yellow", "bold yellow", "bold cyan", "default">>

\* C18: marker and color depend only on the severity lower-cased, by the
\* first rule that matches in the order blocking, question, issue,
\* suggestion, default; both are chosen by the same rule; the severities
\* "blocking issue", "question" and "suggestion" get three different pairs.
C18_MarkerAndColorByFirstRule ==
    /\ sv_pc = "printed" =>
          /\ sv_emoji = RuleEmoji[FirstRule(sv_severity)]
          /\ sv_color = RuleColor[FirstRule(sv_severity)]
    /\ LET pair(s) == <<getSeverityEmoji(s), getSeverityColor(s)>> IN
       /\ pair(<<"blocking", "issue">>) # pair(<<"question">>)
       /\ pair(<<"blocking", "issue">>) # pair(<<"suggestion">>)
       /\ pair(<<"question">>) # pair(<<"suggestion">>)

C18_Witness ==
    /\ sv_pc = "printed"
    /\ sv_severity = <<"Question", "Blocking", "issue">>
    /\ sv_emoji = "police light"
    /\ sv_color = "bold red"

\* the labels "suggestion(non-blocking)" and "Suggestion non blocking:"
NonBlockingLabels ==
    {<<"suggestion", "non", "blocking">>, <<"Suggestion", "non", "blocking">>}

\* C19: a comment whose severity is a non-blocking suggestion label is shown
\* with the marker and the color of suggestions, not with those of blocking
\* issues.
C19_NonBlockingShownAsSuggestion ==
    (sv_pc = "printed" /\ sv_severity \in NonBlockingLabels) =>
        /\ sv_emoji = "light bulb"
        /\ sv_color = "bold cyan"

\* a batch whose dispatch succeeded replied a comment of severity "critical"
CriticalAccumulated ==
    \E i \in 1..Len(rv_log) :
        \E k \in 1..Len(Contribution(rv_cfg.endpointOk, rv_log[i].exchange)) :
            Contribution(rv_cfg.endpointOk, rv_log[i].exchange)[k].Severity = Critical

\* C20: the process exits with code 1 exactly when a comment accumulated
\* over the batches has the severity "critical", with 0 otherwise; what a
\* failed batch replied has no part in it.
C20_ExitCode ==
    /\ rv_pc = "exited" => rv_exit = <<IF CriticalAccumulated THEN 1 ELSE 0>>
    /\ rv_pc # "exited" => rv_exit = Running

C20_Witness ==
    /\ rv_pc = "exited"
    /\ rv_exit = <<0>>
    /\ Len(rv_log) = 2
    /\ rv_log[1].exchange.status = 500
    /\ rv_log[1].exchange.choices # <<>>
    /\ Len(rv_comments) > 0

\* the labels "suggestion(blocking)", "Suggestion blocking:", "Question blocking:"
BlockingLabels ==
    {<<"suggestion", "blocking">>, <<"Suggestion", "blocking">>,
     <<"Question", "blocking">>}

\* C21: the process exits with code 1 whenever the review returned a comment
\* whose severity is one of the blocking labels of the prompt, and with 0
\* only when it returned none.
C21_BlockingExitsOne ==
    (/\ rv_pc = "exited"
     /\ \E k \in 1..Len(rv_comments) : rv_comments[k].Severity \in BlockingLabels)
        => rv_exit = <<1>>

\* C25: createBatches is greedy: when a batch is followed by a batch whose
\* first file is not oversized, that file did not fit, the changes of the
\* earlier batch plus the file's exceeding the budget.
C25_Greedy ==
    cb_pc = "done" =>
        \A b \in 1..(Len(cb_out) - 1) :
            LET F == cb_out[b + 1].Files[1] IN
            Changes(F) <= cb_max =>
                SumSeq(FileChanges(cb_out[b].Files)) + Changes(F) > cb_max

C25_Witness ==
    /\ cb_pc = "done"
    /\ cb_max = 60
    /\ Len(cb_out) = 2
    /\ Len(cb_out[1].Files) = 2
    /\ SumSeq(FileChanges(cb_out[1].Files)) = 60
    /\ Changes(cb_out[2].Files[1]) = 5

\* the lines of a window as the triples the claim speaks of
WindowOf(lines, L) ==
    LET first == Max(1, L - 5)
        last == Min(Len(lines), L + 5)
    IN  [k \in 1..(last - first + 1) |->
            [num |-> first + k - 1, text |-> lines[first + k - 1],
             marked |-> first + k - 1 = L]]

\* what a rendered window says
Rendered(window) ==
    [k \in 1..Len(window) |->
        [num |-> window[k].num, text |-> window[k].text,
         marked |-> window[k].prefix = ">>> "]]

\* C26 as stated: the window is the lines max(1, L-5) .. min(n, L+5) in
\* ascending order under their own numbers, exactly one of them carries the
\* marker, and that one is line L; with no line in the range it is empty.
C26_WindowWithOneMarker ==
    gs_pc = "done" =>
        /\ Rendered(gs_out.window) = WindowOf(gs_lines, gs_lineNum)
        /\ gs_out.window # <<>> =>
              Cardinality({k \in 1..Len(gs_out.window) :
                              gs_out.window[k].prefix = ">>> "}) = 1

\* C26, amended: the window is the lines max(1, L-5) .. min(n, L+5) in
\* ascending order under their own numbers; line L carries the marker when
\* it is a line of the file, and no line carries it when L is 0 or beyond
\* the end; with no line in the range the window is empty.
C26_WindowLines ==
    gs_pc = "done" =>
        /\ Rendered(gs_out.window) = WindowOf(gs_lines, gs_lineNum)
        /\ Cardinality({k \in 1..Len(gs_out.window) :
                           gs_out.window[k].prefix = ">>> "})
              = IF gs_lineNum \in 1..Len(gs_lines) THEN 1 ELSE 0
        /\ gs_lineNum - 5 > Len(gs_lines) => gs_out.window = <<>>

C26_Witness ==
    /\ gs_pc = "done"
    /\ Len(gs_lines) = 8
    /\ gs_lineNum = 10
    /\ Len(gs_out.window) = 4
    /\ gs_out.window[1].num = 5
    /\ \A k \in 1..4 : gs_out.window[k].prefix = "    "

\* C28: EnrichDiffWithContext changes nothing of a record but its language
\* tag: tsx, typescript, jsx, javascript for a new path ending in .tsx, .ts,
\* .jsx, .js, the tag it had for any other path; when enrichment fails the
\* record comes back unchanged, tag included.
C28_OnlyLanguageChanges ==
    en_pc = "enriched" =>
        /\ en_out.diff.OldPath = en_file.OldPath
        /\ en_out.diff.NewPath = en_file.NewPath
        /\ en_out.diff.Diff = en_file.Diff
        /\ en_out.diff.Additions = en_file.Additions
        /\ en_out.diff.Deletions = en_file.Deletions
        /\ en_out.err => en_out.diff = en_file
        /\ ~en_out.err =>
              en_out.diff.Language =
                 CASE Ext(en_file.NewPath) = ".tsx" -> "tsx"
                   [] Ext(en_file.NewPath) = ".ts" -> "typescript"
                   [] Ext(en_file.NewPath) = ".jsx" -> "jsx"
                   [] Ext(en_file.NewPath) = ".js" -> "javascript"
                   [] OTHER -> en_file.Language

C28_Witness ==
    /\ en_pc = "enriched"
    /\ ~en_out.err
    /\ en_path = "d.jsx"
    /\ en_file.Language = ""
    /\ en_out.diff.Language = "jsx"
    /\ en_out.diff.Diff = en_file.Diff

\* C30: every batch holds at least one file and its TotalChanges is the sum
\* of additions + deletions over the files it holds.
C30_TotalsMatch ==
    cb_pc = "done" =>
        \A b \in 1..Len(cb_out) :
            /\ Len(cb_out[b].Files) >= 1
            /\ cb_out[b].TotalChanges = SumSeq(FileChanges(cb_out[b].Files))

C30_Witness ==
    /\ cb_pc = "done"
    /\ Len(cb_out) = 2
    /\ Len(cb_out[1].Files) = 2
    /\ cb_out[1].TotalChanges = 65
    /\ cb_out[2].TotalChanges = 60

\* the context reviewBatch has for the k-th file of the batch: the one
\* computed from the file's own diff and content, or nil when enrichment is
\* disabled or fails
ContextFor(k) ==
    IF ~bp_useTreeSitter THEN NULL
    ELSE LET e == EnrichDiffWithContext(bp_repo[k], bp_batch[k], FALSE) IN
         IF e.err THEN NULL ELSE e.ctx

\* C29: the files and the contexts handed to the dispatch have the same
\* length and are aligned by index - contexts[k] is the context computed for
\* files[k], or nil - whatever the mix of success, failure and disabled
\* enrichment, and after BuildBatchPrompt has sorted the files by path each
\* file's section is rendered with the context of that same file.
C29_ContextsAligned ==
    /\ bp_pc # "panic"
    /\ Len(bp_files) = Len(bp_contexts)
    /\ \A k \in 1..Len(bp_files) :
          /\ bp_files[k].NewPath = bp_batch[k].NewPath
          /\ bp_contexts[k] = ContextFor(k)
    /\ bp_pc = "done" =>
          /\ Len(bp_files) = Len(bp_batch)
          /\ \A s \in 1..Len(bp_out) :
                \E k \in 1..Len(bp_batch) :
                   /\ bp_out[s].path = bp_batch[k].NewPath
                   /\ bp_out[s].context
                         = (/\ ContextFor(k) # NULL
                            /\ DOMAIN ContextFor(k).Surrounding # {})
                   /\ {bp_out[s].entries[m].line :
                          m \in 1..Len(bp_out[s].entries)}
                         = WrittenLines(ContextFor(k))
                   /\ \A m \in 1..Len(bp_out[s].entries) :
                         bp_out[s].entries[m].window
                            = ContextFor(k).Surrounding[bp_out[s].entries[m].line]

\* a batch in descending path order whose first file has no content to read
\* and whose second has: the first section is the second file's, with its
\* context, the second section is the first file's, without one
C29_Witness ==
    /\ bp_pc = "done"
    /\ bp_useTreeSitter
    /\ Len(bp_batch) = 2
    /\ PathLess(bp_batch[2].NewPath, bp_batch[1].NewPath)
    /\ bp_contexts[1] = NULL
    /\ bp_contexts[2] # NULL
    /\ bp_out[1].path = bp_batch[2].NewPath
    /\ Len(bp_out[1].entries) > 0
    /\ bp_out[2].path = bp_batch[1].NewPath
    /\ ~bp_out[2].context

\* a non-empty text of the first choice was obtained from the endpoint
TextObtained ==
    /\ cl_endpointOk
    /\ ~cl_exchange.transportErr
    /\ cl_exchange.status < 300
    /\ cl_exchange.isEnvelope
    /\ Len(cl_exchange.choices) > 0
    /\ cl_exchange.choices[1] # EmptyText

\* C27: Client.ReviewBatch returns an error and no comments when the reply
\* has a non-success status, when the envelope has no choices and when the
\* first message text is empty; it returns without error exactly when a
\* non-empty first-choice text was obtained, and then its result is
\* ParseBatchResponse of that text, whatever the other choices are.
C27_FirstChoiceOrError ==
    cl_pc = "returned" =>
        /\ cl_exchange.status >= 300 => cl_out.err
        /\ cl_exchange.choices = <<>> => cl_out.err
        /\ (cl_exchange.choices # <<>> /\ cl_exchange.choices[1] = EmptyText)
              => cl_out.err
        /\ cl_out.err => cl_out.resp.Comments = <<>>
        /\ ~cl_out.err <=> TextObtained
        /\ ~cl_out.err => cl_out.resp = parseBatchResponse(cl_exchange.choices[1])

\* two choices with different comments: the first one's are returned
C27_Witness ==
    /\ cl_pc = "returned"
    /\ ~cl_out.err
    /\ Len(cl_exchange.choices) = 2
    /\ parseBatchResponse(cl_exchange.choices[2]).Comments
          = <<ReviewComment("b.tsx", 2, <<"Suggestion", "blocking">>)>>
    /\ cl_out.resp.Comments = <<ReviewComment("a.ts", 1, <<"issue">>)>>

\* the comments printed, in printing order
PrintedComments ==
    Flatten([k \in 1..Len(pl_out.groups) |-> pl_out.groups[k].comments])

Occurrences(c, list) == Cardinality({i \in 1..Len(list) : list[i] = c})

\* C23: for a non-empty list PrintLocal prints every comment exactly once,
\* grouped by file path, the groups in ascending order of path and the
\* comments of a group in non-decreasing order of line number, and the last
\* line counts the comments and the distinct paths; for an empty list it
\* prints the all-clear message and nothing else.
C23_GroupedAndCounted ==
    pl_pc = "printed" =>
        IF pl_comments = <<>>
        THEN pl_out = AllClear
        ELSE /\ ~pl_out.allClear
             /\ Len(PrintedComments) = Len(pl_comments)
             /\ \A c \in Range(pl_comments) :
                   Occurrences(c, PrintedComments) = Occurrences(c, pl_comments)
             /\ \A k \in 1..Len(pl_out.groups) :
                   /\ pl_out.groups[k].comments # <<>>
                   /\ \A c \in Range(pl_out.groups[k].comments) :
                         c.FilePath = pl_out.groups[k].file
                   /\ \A m \in 1..(Len(pl_out.groups[k].comments) - 1) :
                         pl_out.groups[k].comments[m].Line
                            <= pl_out.groups[k].comments[m + 1].Line
             /\ \A k \in 1..(Len(pl_out.groups) - 1) :
                   PathLess(pl_out.groups[k].file, pl_out.groups[k + 1].file)
             /\ pl_out.footer
                   = <<Len(pl_comments),
                       Cardinality({c.FilePath : c \in Range(pl_comments)})>>

\* three comments on two files, given with the later path first and the
\* later line first
C23_Witness ==
    /\ pl_pc = "printed"
    /\ Len(pl_comments) = 3
    /\ pl_comments[1].FilePath = "b.tsx"
    /\ pl_comments[2] = ReviewComment("a.ts", 7, <<"issue">>)
    /\ pl_comments[3] = ReviewComment("a.ts", 2, <<"issue">>)
    /\ Len(pl_out.groups) = 2
    /\ pl_out.groups[1].comments = <<pl_comments[3], pl_comments[2]>>
    /\ pl_out.footer = <<3, 2>>

\* the value the flags and the environment configure for a setting
ConfiguredToken ==
    IF mn_args.aiToken.given THEN mn_args.aiToken.v ELSE mn_args.envToken

ConfiguredRulesPath ==
    IF mn_args.rulesFile.given THEN mn_args.rulesFile.v
    ELSE IF mn_args.rulesDir.given THEN mn_args.rulesDir.v ELSE ""

ConfiguredTemperature ==
    IF mn_args.temperature.given THEN mn_args.temperature.v
    ELSE IF mn_args.envTemperature.ok THEN mn_args.envTemperature.v ELSE 0

\* the guideline source cannot be loaded: nothing at the path, a file that
\* is not a .md file, a directory without .md files, an unreadable document
SourceUnloadable ==
    \/ ~mn_rules.exists
    \/ ~mn_rules.isDir /\ ConfiguredRulesPath # "rules.md"
    \/ mn_rules.isDir /\ mn_rules.matches = 0
    \/ ~mn_rules.readable

StartupFails ==
    /\ mn_pc # "idle"
    /\ \/ ConfiguredToken = ""
       \/ ConfiguredRulesPath = ""
       \/ SourceUnloadable

StartupOrder ==
    /\ StartupFails =>
          /\ EventsOf("git") = {} /\ EventsOf("batch") = {}
          /\ EventsOf("request") = {}
          /\ mn_pc = "exited" => mn_exit = <<1>>
    /\ \A i \in EventsOf("git") :
          \E j \in EventsOf("LoadBestPractices") : j < i

C24_ConfiguredTemperatureSent ==
    \A i \in EventsOf("request") :
        /\ mn_client.temperature = ConfiguredTemperature
        /\ mn_trace[i].temperature = mn_client.temperature

====
